---- MODULE Spec2Model ----
(***************************************************************************)
(* Model of the file decomposition and validated-mutation core of the      *)
(* design-smell refactoring pipeline:                                      *)
(*   refactoring/validator.py        CodeValidator (syntax, build, test)   *)
(*   refactoring/context_manager.py  ContextManager (chunking and merge)   *)
(*   main.py                         RefactoringPipeline._refactor_file    *)
(*                                                                         *)
(* A text is a sequence of one-character strings.  The working-tree file   *)
(* is one shared variable, disk, holding either NoFile or the file's       *)
(* characters as stored.  Python's text-mode open() is modelled by what it *)
(* does to line endings (universal newlines on read, os.linesep on write). *)
(***************************************************************************)
EXTENDS Integers, Sequences, FiniteSets, TLC

\* ------------------------------------------------------------------ bounds
\* Longest stored file of the validation specifications.
MaxFileLen == 2
\* Longest candidate text handed to the validator directly.
MaxCandLen == 1
\* Iterations of the line-window loop followed before it counts as endless.
MaxRounds == 4
\* Most lines of a file handed to the chunk engine.
MaxLines == 3

\* ------------------------------------------------------------------ texts
CR == "\r"
LF == "\n"
\* A path that does not exist, and Python's None where a text is expected:
\* one-element sequences that are no text (a text holds single characters).
NoFile == <<"NoFile">>
None == <<"None">>
\* None where a ValidationResult is expected.
NoResult == [none |-> TRUE]

RECURSIVE TextsUpTo(_, _)
\* All texts over alphabet A of length at most n.
TextsUpTo(A, n) ==
  IF n = 0 THEN {<<>>}
  ELSE LET shorter == TextsUpTo(A, n - 1)
       IN  shorter \cup {Append(t, c) : t \in {s \in shorter : Len(s) = n - 1}, c \in A}

\* os.linesep of the platform the pipeline runs on (POSIX, the CI runner).
os_linesep == <<LF>>

RECURSIVE ReadText(_)
\* f.read() of a file opened with open(path, 'r'): newline=None, so "\r\n"
\* and a lone "\r" both arrive as "\n".
ReadText(bytes) ==
  IF bytes = <<>> THEN <<>>
  ELSE IF Head(bytes) = CR
       THEN IF Len(bytes) >= 2 /\ bytes[2] = LF
            THEN <<LF>> \o ReadText(SubSeq(bytes, 3, Len(bytes)))
            ELSE <<LF>> \o ReadText(Tail(bytes))
       ELSE <<Head(bytes)>> \o ReadText(Tail(bytes))

RECURSIVE WriteText(_)
\* What open(path, 'w') ... f.write(text) stores: the file is truncated and
\* every "\n" written becomes os.linesep.
WriteText(text) ==
  IF text = <<>> THEN <<>>
  ELSE (IF Head(text) = LF THEN os_linesep ELSE <<Head(text)>>) \o WriteText(Tail(text))

\* ------------------------------------------------------------------ state
VARIABLES
  disk,              \* the working-tree file: NoFile or its stored characters
  run_compile,       \* CodeValidator.run_compile
  run_tests,         \* CodeValidator.run_tests
  javalang,          \* whether "import javalang" succeeded
  pc,                \* pc[p]: position of caller p
  entry,             \* entry[p]: the validator method caller p invoked
  new_code,          \* new_code[p]: the candidate text of the call
  original_content,  \* original_content[p]: the stage's snapshot, or None
  pending,           \* pending[p]: the value the running stage is about to return
  result,            \* result[p]: the ValidationResult the call returned, or None
  tool,              \* tool[p]: "none", "build" or "test": subprocess in flight
  log,               \* log[p]: the events of the call, in order
  pre,               \* pre[p]: the file as it was when the call was issued
  disk0,             \* the file as it was before any call was issued
  max_chunk_size,    \* ContextManager.max_chunk_size (chunking.max_file_size)
  max_chunk_tokens,  \* ContextManager.max_chunk_tokens
  overlap_lines,     \* ContextManager.overlap_lines
  strategy,          \* ContextManager.strategy
  dry_run,           \* RefactoringPipeline.dry_run
  ppc,               \* position of the orchestrator
  ctx,               \* the FileContext process_file returned, or NoContext
  final_code,        \* what merge_refactored_chunks returned, or None
  test_files,        \* the class files under <project_root>/app/src/test/java
  commands,          \* commands[p]: the commands the call handed to subprocess.run
  mv,                \* the validate_multiple_files call in progress, or NoMulti
  llm                \* the generate_with_retry call in progress, or NoLLM

\* The configuration of the ContextManager.
chunking == <<max_chunk_size, max_chunk_tokens, overlap_lines, strategy>>

\* The state of the orchestrator.
orch == <<dry_run, ppc, ctx, final_code>>

\* What no step outside the validator changes, but for the call itself.
settings == <<run_compile, run_tests, javalang, disk0, chunking, dry_run, test_files,
             mv, llm>>

\* The state of the validator's calls.
calls == <<pc, entry, new_code, original_content, pending, result, tool, log, pre,
          commands>>

\* What no step inside the validator changes.
rest == <<run_compile, run_tests, javalang, disk0, chunking, orch, test_files, mv,
          llm>>

vars == <<disk, pc, entry, new_code, original_content, pending, result, tool,
          log, pre, commands, rest>>

Callers == {1, 2}

\* Defaults of the ContextManager's configuration.
SMALL_FILE_THRESHOLD == 50000
MAX_TOKENS_PER_CHUNK == 50000
DEFAULT_OVERLAP_LINES == 20

\* ------------------------------------------------------ ValidationResult
\* The dataclass: fields not given take their defaults (True, True, True,
\* "", {}).  error_message keeps the fixed prefix of the message, details
\* the kind of dictionary attached.
ValidationResult(is_valid, syntax_valid, compiles, tests_pass, error_message, details) ==
  [is_valid |-> is_valid, syntax_valid |-> syntax_valid, compiles |-> compiles,
   tests_pass |-> tests_pass, error_message |-> error_message, details |-> details]

Passed == ValidationResult(TRUE, TRUE, TRUE, TRUE, "", "empty")

\* quick_only of full_validation: no caller passes it, so it has its default.
quick_only == FALSE

\* How javalang.parse.parse(code) can end.
ParseOutcomes == {"parsed", "JavaSyntaxError", "Exception"}

\* validate_syntax(code), given how the parser ends on the code.
validate_syntax(parse) ==
  IF ~javalang THEN ValidationResult(TRUE, TRUE, TRUE, TRUE, "", "empty")
  ELSE IF parse = "parsed" THEN ValidationResult(TRUE, TRUE, TRUE, TRUE, "", "empty")
  ELSE IF parse = "JavaSyntaxError"
       THEN ValidationResult(FALSE, FALSE, TRUE, TRUE, "Syntax error: ", "line")
       ELSE ValidationResult(FALSE, FALSE, TRUE, TRUE, "Parse error: ", "empty")

\* How subprocess.run can end once the process has been started: exit
\* status 0, another exit status, TimeoutExpired, or another exception.
RunOutcomes == {"exit0", "exit_nonzero", "TimeoutExpired", "Exception"}

\* The ValidationResult validate_compilation builds from the way
\* subprocess.run ended; "FileNotFoundError" is the executable being absent.
CompileResult(outcome) ==
  CASE outcome = "exit0" -> ValidationResult(TRUE, TRUE, TRUE, TRUE, "", "empty")
    [] outcome = "exit_nonzero" ->
         ValidationResult(FALSE, TRUE, FALSE, TRUE, "Compilation failed: ", "compile_errors")
    [] outcome = "TimeoutExpired" ->
         ValidationResult(FALSE, TRUE, FALSE, TRUE, "Compilation timed out after 5 minutes", "empty")
    [] OTHER ->
         ValidationResult(FALSE, TRUE, FALSE, TRUE, "Compilation error: ", "empty")

\* TestResult that leaves tests_pass at its default when the tests fail.
TestResult_DefaultFlag(outcome) ==
  IF outcome = "exit0" THEN ValidationResult(TRUE, TRUE, TRUE, TRUE, "", "empty")
  ELSE ValidationResult(FALSE, TRUE, TRUE, TRUE, "Tests failed: ", "test_failures")

\* The same for validate_tests.
TestResult(outcome) ==
  CASE outcome = "exit0" -> ValidationResult(TRUE, TRUE, TRUE, TRUE, "", "empty")
    [] outcome = "exit_nonzero" ->
         ValidationResult(FALSE, TRUE, TRUE, FALSE, "Tests failed: ", "test_failures")
    [] outcome = "TimeoutExpired" ->
         ValidationResult(FALSE, TRUE, TRUE, FALSE, "Tests timed out after 10 minutes", "empty")
    [] OTHER ->
         ValidationResult(FALSE, TRUE, TRUE, FALSE, "Test error: ", "empty")

\* ------------------------------------------------------ _find_related_tests
\* "Common test naming conventions" for a file whose stem (class_name) is
\* A, in the order they are tried.
test_patterns == <<"ATest", "ATests", "TestA">>

RECURSIVE Matching(_, _)
\* The stems of the patterns that test_dir.rglob finds, in pattern order.
Matching(patterns, files) ==
  IF patterns = <<>> THEN <<>>
  ELSE (IF Head(patterns) \in files THEN <<Head(patterns)>> ELSE <<>>)
       \o Matching(Tail(patterns), files)

\* _find_related_tests that knows the <Name>Test convention only.
find_related_tests_FirstPatternOnly == Matching(<<"ATest">>, test_files)

\* self._find_related_tests(file_path): the test classes found.
find_related_tests == Matching(test_patterns, test_files)

\* The command validate_tests runs: self.test_command, with -Dtest=<the
\* test classes> when there are any.
TestCommand == [tool |-> "test", tests |-> find_related_tests]

\* The command validate_compilation runs: self.compile_command.
BuildCommand == [tool |-> "build", tests |-> <<>>]

\* ------------------------------------------------------------ bookkeeping
Logged(p, e) == log' = [log EXCEPT ![p] = Append(@, e)]

Goto(p, label) == pc' = [pc EXCEPT ![p] = label]

\* The call of caller p returns r to whoever issued it.
Return(p, r) ==
  /\ result' = [result EXCEPT ![p] = r]
  /\ Goto(p, "done")

EntryPoints == {"full_validation", "validate_compilation", "validate_tests"}

Candidates == TextsUpTo({"b", LF}, MaxCandLen)

\* A caller issues a call of one of the validator's public methods.
Call(p) ==
  /\ pc[p] = "idle"
  /\ \E e \in EntryPoints, code \in Candidates :
       /\ entry' = [entry EXCEPT ![p] = e]
       /\ new_code' = [new_code EXCEPT ![p] = code]
       /\ Goto(p, e)
       /\ Logged(p, <<"call", e>>)
  /\ pre' = [pre EXCEPT ![p] = disk]
  /\ UNCHANGED <<rest, commands, disk, original_content,
                 pending, result, tool>>

\* The running stage (validate_compilation or validate_tests) returns r: to
\* the caller when the stage was called directly, to full_validation else.
StageReturn(p, r, back) ==
  IF entry[p] = "full_validation"
  THEN /\ pending' = [pending EXCEPT ![p] = r]
       /\ Goto(p, back)
       /\ UNCHANGED result
  ELSE /\ pending' = [pending EXCEPT ![p] = NoResult]
       /\ Return(p, r)

\* ------------------------------------------------------- full_validation
\* FV_Syntax without its early return: a syntax error is logged and the
\* build stage is entered all the same.
FV_Syntax_NoEarlyReturn(p) ==
  /\ pc[p] = "full_validation"
  /\ \E parse \in ParseOutcomes :
       LET syntax_result == validate_syntax(parse)
       IN  Logged(p, <<"syntax", IF syntax_result.is_valid THEN "passed" ELSE "failed">>)
  /\ Goto(p, "fv_step2")
  /\ UNCHANGED <<rest, commands, disk, entry, new_code,
                 original_content, pending, result, tool, pre>>

\* Step 1: validate_syntax(new_code); its failure is returned at once.
FV_Syntax(p) ==
  /\ pc[p] = "full_validation"
  /\ \E parse \in ParseOutcomes :
       LET syntax_result == validate_syntax(parse)
       IN  /\ IF ~syntax_result.is_valid \/ quick_only
              THEN Return(p, syntax_result)
              ELSE Goto(p, "fv_step2") /\ UNCHANGED result
           /\ Logged(p, <<"syntax", IF syntax_result.is_valid THEN "passed" ELSE "failed">>)
  /\ UNCHANGED <<rest, commands, disk, entry, new_code,
                 original_content, pending, tool, pre>>

\* Step 2: the compilation check, when configured on.
FV_Step2(p) ==
  /\ pc[p] = "fv_step2"
  /\ IF run_compile THEN Goto(p, "validate_compilation") ELSE Goto(p, "fv_step3")
  /\ UNCHANGED <<rest, commands, disk, entry, new_code,
                 original_content, pending, result, tool, log, pre>>

\* FV_AfterCompile that drops the compile result and goes on to the tests.
FV_AfterCompile_IgnoresFailure(p) ==
  /\ pc[p] = "fv_after_compile"
  /\ Goto(p, "fv_step3")
  /\ pending' = [pending EXCEPT ![p] = NoResult]
  /\ UNCHANGED <<rest, commands, disk, entry, new_code,
                 original_content, result, tool, log, pre>>

\* "if not compile_result.is_valid: return compile_result".
FV_AfterCompile(p) ==
  /\ pc[p] = "fv_after_compile"
  /\ IF ~pending[p].is_valid
     THEN Return(p, pending[p])
     ELSE Goto(p, "fv_step3") /\ UNCHANGED result
  /\ pending' = [pending EXCEPT ![p] = NoResult]
  /\ UNCHANGED <<rest, commands, disk, entry, new_code,
                 original_content, tool, log, pre>>

\* Step 3: the test run, when configured on; else everything passed.
FV_Step3(p) ==
  /\ pc[p] = "fv_step3"
  /\ IF run_tests
     THEN Goto(p, "validate_tests") /\ UNCHANGED result
     ELSE Return(p, Passed)
  /\ UNCHANGED <<rest, commands, disk, entry, new_code,
                 original_content, pending, tool, log, pre>>

\* FV_AfterTests that gives a failed test run a second try.
FV_AfterTests_RetriesOnce(p) ==
  /\ pc[p] = "fv_after_tests"
  /\ IF ~pending[p].is_valid
     THEN IF Len(SelectSeq(commands[p], LAMBDA c : c.tool = "test")) < 2
          THEN Goto(p, "validate_tests") /\ UNCHANGED result
          ELSE Return(p, pending[p])
     ELSE Return(p, Passed)
  /\ pending' = [pending EXCEPT ![p] = NoResult]
  /\ UNCHANGED <<rest, commands, disk, entry, new_code,
                 original_content, tool, log, pre>>

\* "if not test_result.is_valid: return test_result", else all passed.
FV_AfterTests(p) ==
  /\ pc[p] = "fv_after_tests"
  /\ IF ~pending[p].is_valid
     THEN Return(p, pending[p])
     ELSE Return(p, Passed)
  /\ pending' = [pending EXCEPT ![p] = NoResult]
  /\ UNCHANGED <<rest, commands, disk, entry, new_code,
                 original_content, tool, log, pre>>

\* --------------------------------------------------- validate_compilation
\* "if not self.run_compile: return ValidationResult(is_valid=True, ...)".
VC_Enter(p) ==
  /\ pc[p] = "validate_compilation"
  /\ IF ~run_compile
     THEN StageReturn(p, ValidationResult(TRUE, TRUE, TRUE, TRUE, "", "empty"),
                      "fv_after_compile")
     ELSE Goto(p, "vc_snapshot") /\ UNCHANGED <<pending, result>>
  /\ Logged(p, <<"stage", "validate_compilation">>)
  /\ UNCHANGED <<rest, commands, disk, entry, new_code,
                 original_content, tool, pre>>

\* "Store original content": read only when the path exists.
VC_Snapshot(p) ==
  /\ pc[p] = "vc_snapshot"
  /\ original_content' = [original_content EXCEPT ![p] =
                            IF disk = NoFile THEN None ELSE ReadText(disk)]
  /\ IF disk = NoFile THEN UNCHANGED log ELSE Logged(p, <<"file", "snapshot">>)
  /\ Goto(p, "vc_write")
  /\ UNCHANGED <<rest, commands, disk, entry, new_code,
                 pending, result, tool, pre>>

\* "Write new code temporarily".
VC_Write(p) ==
  /\ pc[p] = "vc_write"
  /\ disk' = WriteText(new_code[p])
  /\ Logged(p, <<"file", "write_candidate">>)
  /\ Goto(p, "vc_run")
  /\ UNCHANGED <<rest, commands, entry, new_code,
                 original_content, pending, result, tool, pre>>

\* VC_Run that starts the build without waiting for it (Popen in place of
\* run): the finally block then restores the file under the running build.
VC_Run_Detached(p) ==
  /\ pc[p] = "vc_run"
  /\ commands' = [commands EXCEPT ![p] = Append(@, BuildCommand)]
  /\ tool' = [tool EXCEPT ![p] = "build"]
  /\ pending' = [pending EXCEPT ![p] = CompileResult("exit0")]
  /\ Logged(p, <<"build", "started">>)
  /\ Goto(p, "vc_finally")
  /\ UNCHANGED <<rest, disk, entry, new_code,
                 original_content, result, pre>>

\* subprocess.run(compile_command): the process starts, or the executable
\* is absent and FileNotFoundError is raised without anything running.
VC_Run(p) ==
  /\ pc[p] = "vc_run"
  /\ commands' = [commands EXCEPT ![p] = Append(@, BuildCommand)]
  /\ \/ /\ tool' = [tool EXCEPT ![p] = "build"]
        /\ Logged(p, <<"build", "started">>)
        /\ Goto(p, "vc_wait")
        /\ UNCHANGED pending
     \/ /\ pending' = [pending EXCEPT ![p] = CompileResult("FileNotFoundError")]
        /\ Logged(p, <<"build", "FileNotFoundError">>)
        /\ Goto(p, "vc_finally")
        /\ UNCHANGED tool
  /\ UNCHANGED <<rest, disk, entry, new_code,
                 original_content, result, pre>>

\* The build process ends (or is killed at the 300 s timeout) and the
\* return statement of the matching branch is evaluated.
VC_Wait(p) ==
  /\ pc[p] = "vc_wait"
  /\ \E outcome \in RunOutcomes :
       /\ pending' = [pending EXCEPT ![p] = CompileResult(outcome)]
       /\ Logged(p, <<"build", outcome>>)
  /\ tool' = [tool EXCEPT ![p] = "none"]
  /\ Goto(p, "vc_finally")
  /\ UNCHANGED <<rest, commands, disk, entry, new_code,
                 original_content, result, pre>>

\* The finally block: "Restore original content", then the stage returns.
VC_Finally(p) ==
  /\ pc[p] = "vc_finally"
  /\ IF original_content[p] # None
     THEN /\ disk' = WriteText(original_content[p])
          /\ Logged(p, <<"file", "restore">>)
     ELSE UNCHANGED <<disk, log>>
  /\ original_content' = [original_content EXCEPT ![p] = None]
  /\ StageReturn(p, pending[p], "fv_after_compile")
  /\ UNCHANGED <<rest, commands, entry, new_code, tool, pre>>

\* --------------------------------------------------------- validate_tests
\* "if not self.run_tests: return ValidationResult(is_valid=True, ...)".
VT_Enter(p) ==
  /\ pc[p] = "validate_tests"
  /\ IF ~run_tests
     THEN StageReturn(p, ValidationResult(TRUE, TRUE, TRUE, TRUE, "", "empty"),
                      "fv_after_tests")
     ELSE Goto(p, "vt_snapshot") /\ UNCHANGED <<pending, result>>
  /\ Logged(p, <<"stage", "validate_tests">>)
  /\ UNCHANGED <<rest, commands, disk, entry, new_code,
                 original_content, tool, pre>>

\* "Store original content": read only when the path exists.
VT_Snapshot(p) ==
  /\ pc[p] = "vt_snapshot"
  /\ original_content' = [original_content EXCEPT ![p] =
                            IF disk = NoFile THEN None ELSE ReadText(disk)]
  /\ IF disk = NoFile THEN UNCHANGED log ELSE Logged(p, <<"file", "snapshot">>)
  /\ Goto(p, "vt_write")
  /\ UNCHANGED <<rest, commands, disk, entry, new_code,
                 pending, result, tool, pre>>

\* "Write new code temporarily".
VT_Write(p) ==
  /\ pc[p] = "vt_write"
  /\ disk' = WriteText(new_code[p])
  /\ Logged(p, <<"file", "write_candidate">>)
  /\ Goto(p, "vt_run")
  /\ UNCHANGED <<rest, commands, entry, new_code,
                 original_content, pending, result, tool, pre>>

\* subprocess.run(cmd): the process starts, or the executable is absent.
VT_Run(p) ==
  /\ pc[p] = "vt_run"
  /\ commands' = [commands EXCEPT ![p] = Append(@, TestCommand)]
  /\ \/ /\ tool' = [tool EXCEPT ![p] = "test"]
        /\ Logged(p, <<"test", "started">>)
        /\ Goto(p, "vt_wait")
        /\ UNCHANGED pending
     \/ /\ pending' = [pending EXCEPT ![p] = TestResult("FileNotFoundError")]
        /\ Logged(p, <<"test", "FileNotFoundError">>)
        /\ Goto(p, "vt_finally")
        /\ UNCHANGED tool
  /\ UNCHANGED <<rest, disk, entry, new_code,
                 original_content, result, pre>>

\* The test process ends (or is killed at the 600 s timeout).
VT_Wait(p) ==
  /\ pc[p] = "vt_wait"
  /\ \E outcome \in RunOutcomes :
       /\ pending' = [pending EXCEPT ![p] = TestResult(outcome)]
       /\ Logged(p, <<"test", outcome>>)
  /\ tool' = [tool EXCEPT ![p] = "none"]
  /\ Goto(p, "vt_finally")
  /\ UNCHANGED <<rest, commands, disk, entry, new_code,
                 original_content, result, pre>>

\* The finally block: "Restore original content", then the stage returns.
VT_Finally(p) ==
  /\ pc[p] = "vt_finally"
  /\ IF original_content[p] # None
     THEN /\ disk' = WriteText(original_content[p])
          /\ Logged(p, <<"file", "restore">>)
     ELSE UNCHANGED <<disk, log>>
  /\ original_content' = [original_content EXCEPT ![p] = None]
  /\ StageReturn(p, pending[p], "fv_after_tests")
  /\ UNCHANGED <<rest, commands, entry, new_code, tool, pre>>

\* One step of caller p inside the validator.
ValidatorStep(p) ==
  \/ FV_Syntax(p) \/ FV_Step2(p) \/ FV_AfterCompile(p)
  \/ FV_Step3(p) \/ FV_AfterTests(p)
  \/ VC_Enter(p) \/ VC_Snapshot(p) \/ VC_Write(p)
  \/ VC_Run(p) \/ VC_Wait(p) \/ VC_Finally(p)
  \/ VT_Enter(p) \/ VT_Snapshot(p) \/ VT_Write(p)
  \/ VT_Run(p) \/ VT_Wait(p) \/ VT_Finally(p)

\* ============================================================ ContextManager
\* ------------------------------------------------------------- str methods
Min(a, b) == IF a < b THEN a ELSE b

Max(a, b) == IF a > b THEN a ELSE b

\* Position of the first c in s, 0 when there is none.
Find(s, c) ==
  IF \E i \in 1..Len(s) : s[i] = c
  THEN CHOOSE i \in 1..Len(s) : s[i] = c /\ \A j \in 1..(i - 1) : s[j] # c
  ELSE 0

RECURSIVE Split(_)
\* text.split('\n'): never empty, one more element than there are "\n".
Split(text) ==
  LET i == Find(text, LF)
  IN  IF i = 0 THEN <<text>>
      ELSE <<SubSeq(text, 1, i - 1)>> \o Split(SubSeq(text, i + 1, Len(text)))

RECURSIVE Join(_)
\* '\n'.join(lines).
Join(lines) ==
  IF lines = <<>> THEN <<>>
  ELSE IF Len(lines) = 1 THEN lines[1]
  ELSE lines[1] \o <<LF>> \o Join(Tail(lines))

\* The characters str.strip() removes.
Whitespace == {" ", "\t", LF, CR}

RECURSIVE LStrip(_)
LStrip(s) == IF s # <<>> /\ Head(s) \in Whitespace THEN LStrip(Tail(s)) ELSE s

RECURSIVE RStrip(_)
RStrip(s) ==
  IF s # <<>> /\ s[Len(s)] \in Whitespace THEN RStrip(SubSeq(s, 1, Len(s) - 1)) ELSE s

\* line.strip().
Strip(s) == RStrip(LStrip(s))

\* s.startswith(prefix).
StartsWith(s, prefix) ==
  Len(s) >= Len(prefix) /\ SubSeq(s, 1, Len(prefix)) = prefix

\* s.endswith(c) for a one-character c.
EndsWith(s, c) == s # <<>> /\ s[Len(s)] = c

\* "sub in s".
Contains(s, sub) ==
  \E i \in 0..(Len(s) - Len(sub)) : SubSeq(s, i + 1, i + Len(sub)) = sub

\* A slice bound as Python normalises it for a sequence of length n.
SliceBound(i, n) ==
  IF i < 0 THEN Max(n + i, 0) ELSE Min(i, n)

\* s[a:b] with 0-based bounds.
PySlice(s, a, b) ==
  LET lo == SliceBound(a, Len(s))
      hi == SliceBound(b, Len(s))
  IN  IF hi <= lo THEN <<>> ELSE SubSeq(s, lo + 1, hi)

\* The list after "s[a:b] = r".
PySliceAssign(s, a, b, r) ==
  LET lo == SliceBound(a, Len(s))
      hi == Max(SliceBound(b, Len(s)), lo)
  IN  SubSeq(s, 1, lo) \o r \o SubSeq(s, hi + 1, Len(s))

\* A text is true in a condition when it is neither None nor empty.
Truthy(text) == text # None /\ text # <<>>

\* ------------------------------------------------------------ FileContext
Kw_package == <<"p", "a", "c", "k", "a", "g", "e", " ">>
Kw_import == <<"i", "m", "p", "o", "r", "t", " ">>
Kw_class == <<"c", "l", "a", "s", "s", " ">>
Kw_interface == <<"i", "n", "t", "e", "r", "f", "a", "c", "e", " ">>
Kw_enum == <<"e", "n", "u", "m", " ">>

\* The characters of [\w.] among those the model's texts are made of.
NameChars ==
  {"a", "b", "c", "d", "e", "f", "g", "h", "i", "j", "k", "l", "m", "n", "o",
   "p", "q", "r", "s", "t", "u", "v", "w", "x", "y", "z", "A", "_", "."}

RECURSIVE SpanOf(_, _)
\* Length of the longest prefix of s made of characters of set S.
SpanOf(s, S) == IF s # <<>> /\ Head(s) \in S THEN 1 + SpanOf(Tail(s), S) ELSE 0

\* group(1) of re.match(r'package\s+([\w.]+);', stripped), None without match.
PackageMatch(stripped) ==
  LET word == <<"p", "a", "c", "k", "a", "g", "e">>
      after == SubSeq(stripped, Len(word) + 1, Len(stripped))
      ws == SpanOf(after, Whitespace)
      tail == SubSeq(after, ws + 1, Len(after))
      nm == SpanOf(tail, NameChars)
  IN  IF StartsWith(stripped, word) /\ ws >= 1 /\ nm >= 1
         /\ Len(tail) > nm /\ tail[nm + 1] = ";"
      THEN SubSeq(tail, 1, nm)
      ELSE None

RECURSIVE HeaderScan(_, _)
\* The loop of _parse_header over the remaining lines, h the header so far.
HeaderScan(lines, h) ==
  IF lines = <<>> THEN h
  ELSE LET stripped == Strip(Head(lines))
       IN  IF StartsWith(stripped, Kw_package)
           THEN HeaderScan(Tail(lines),
                           IF PackageMatch(stripped) # None
                           THEN [h EXCEPT !.package = PackageMatch(stripped)]
                           ELSE h)
           ELSE IF StartsWith(stripped, Kw_import)
           THEN HeaderScan(Tail(lines), [h EXCEPT !.imports = Append(@, stripped)])
           ELSE IF Contains(stripped, Kw_class) \/ Contains(stripped, Kw_interface)
                   \/ Contains(stripped, Kw_enum)
           THEN h
           ELSE HeaderScan(Tail(lines), h)

\* _parse_header(content, context): the package ("" when none) and imports.
ParseHeader(content) == HeaderScan(Split(content), [package |-> <<>>, imports |-> <<>>])

\* FileContext.get_context_header().
get_context_header(package, imports) ==
  Join((IF Truthy(package)
        THEN <<Kw_package \o package \o <<";">>, <<>> >>
        ELSE <<>>)
       \o imports
       \o (IF imports # <<>> THEN << <<>> >> ELSE <<>>))

\* CodeChunk(...): refactored_content starts as None.
CodeChunk(chunk_id, content, start_line, end_line, chunk_type, class_name, method_name, context_header) ==
  [chunk_id |-> chunk_id, content |-> content, start_line |-> start_line,
   end_line |-> end_line, chunk_type |-> chunk_type, class_name |-> class_name,
   method_name |-> method_name, context_header |-> context_header,
   original_content |-> content, refactored_content |-> None]


\* FileContext(file_path, package, imports, chunks, original_content).
FileContext(package, imports, chunks, content) ==
  [package |-> package, imports |-> imports, chunks |-> chunks,
   original_content |-> content]

\* No FileContext (yet).
NoContext == [none |-> TRUE]

\* -------------------------------------------------------- _find_block_end
RECURSIVE RemoveStrings(_)
\* re.sub(r'"[^"]*"', '', line): quotes pair up from the left.
RemoveStrings(line) ==
  LET i == Find(line, "\"")
      after == SubSeq(line, i + 1, Len(line))
      j == Find(after, "\"")
  IN  IF i = 0 \/ j = 0 THEN line
      ELSE SubSeq(line, 1, i - 1) \o RemoveStrings(SubSeq(after, j + 1, Len(after)))

\* re.sub(r'//.*$', '', line): cut at the first "//".
RemoveLineComment(line) ==
  LET starts == {i \in 1..(Len(line) - 1) : line[i] = "/" /\ line[i + 1] = "/"}
  IN  IF starts = {} THEN line
      ELSE SubSeq(line, 1, (CHOOSE i \in starts : \A j \in starts : i <= j) - 1)

CountOf(s, c) == Cardinality({i \in 1..Len(s) : s[i] = c})

RECURSIVE BlockScan(_, _, _, _)
\* The loop of _find_block_end from 0-based line i on.
BlockScan(lines, i, brace_count, in_block) ==
  IF i >= Len(lines) THEN Len(lines) - 1
  ELSE LET clean_line == RemoveLineComment(RemoveStrings(lines[i + 1]))
           count == brace_count + CountOf(clean_line, "{") - CountOf(clean_line, "}")
           inb == in_block \/ CountOf(clean_line, "{") > 0
       IN  IF inb /\ count = 0 THEN i ELSE BlockScan(lines, i + 1, count, inb)

\* _find_block_end(lines, start), both 0-based.
find_block_end(lines, start) == BlockScan(lines, start, 0, FALSE)

\* --------------------------------------------------------- _chunk_by_lines
\* int(chars_per_chunk / avg_line_length), avg_line_length = len(content)/len(lines).
lines_per_chunk(content, lines) ==
  (max_chunk_tokens * 4 * Len(lines)) \div Len(content)

\* The indices "Try to end at a method boundary" scans, from end - 1 down
\* to just above max(start + lines_per_chunk // 2, start).
SnapRange(start, end, lpc) == (Max(start + (lpc \div 2), start) + 1)..(end - 1)

\* lines[i] of the scan: a negative i counts from the end of the list.
PyItem(lines, i) == IF i < 0 THEN lines[Len(lines) + i + 1] ELSE lines[i + 1]

\* The scanned indices whose line, stripped, ends with "}".
SnapHits(lines, start, end, lpc) ==
  {i \in SnapRange(start, end, lpc) :
     /\ i >= -Len(lines)
     /\ i < Len(lines)
     /\ EndsWith(Strip(PyItem(lines, i)), "}")}

\* The scan meets an index outside the list before it meets a hit.
SnapRaises(lines, start, end, lpc) ==
  /\ SnapHits(lines, start, end, lpc) = {}
  /\ \E i \in SnapRange(start, end, lpc) : i < -Len(lines) \/ i >= Len(lines)

\* The window end after the scan.
SnapEnd(lines, start, end, lpc) ==
  LET hits == SnapHits(lines, start, end, lpc)
  IN  IF hits = {} THEN end
      ELSE (CHOOSE i \in hits : \A j \in hits : j <= i) + 1

RECURSIVE LinesLoop(_, _, _, _, _, _)
\* The while loop of _chunk_by_lines from window start `start`; rounds is
\* how many more iterations are followed before the loop counts as endless.
LinesLoop(lines, lpc, header, start, chunk_id, rounds) ==
  IF ~(start < Len(lines)) THEN [status |-> "returned", chunks |-> <<>>]
  ELSE IF rounds = 0 THEN [status |-> "endless", chunks |-> <<>>]
  ELSE IF SnapRaises(lines, start, Min(start + lpc, Len(lines)), lpc)
  THEN [status |-> "raised", chunks |-> <<>>]
  ELSE LET end == SnapEnd(lines, start, Min(start + lpc, Len(lines)), lpc)
           chunk == CodeChunk(chunk_id, Join(PySlice(lines, start, end)),
                              start + 1, end, "lines", None, None, header)
           more == LinesLoop(lines, lpc, header, end - overlap_lines,
                             chunk_id + 1, rounds - 1)
       IN  [status |-> more.status, chunks |-> <<chunk>> \o more.chunks]

\* _chunk_by_lines(content, context): the chunks it appends, and whether
\* it returns, raises (ZeroDivisionError on empty content) or never ends.
chunk_by_lines(content, header) ==
  LET lines == Split(content)
  IN  IF Len(content) = 0 THEN [status |-> "raised", chunks |-> <<>>]
      ELSE LinesLoop(lines, lines_per_chunk(content, lines), header, 0, 0, MaxRounds)

\* ----------------------------------------------------------- _chunk_by_ast
\* What javalang.parse.parse gives: ParseFails, or the class declarations
\* tree.filter yields, each [name, line (0: no position), methods], a
\* method being [name, line].
ParseFails == <<[error |-> "JavaSyntaxError"]>>

RECURSIVE MethodChunks(_, _, _, _)
\* The second loop of _chunk_class_by_methods over the remaining methods.
MethodChunks(lines, methods, context_header, chunk_id) ==
  IF methods = <<>> THEN <<>>
  ELSE LET member == Head(methods)
           method_start == member.line - 1
           method_end == find_block_end(lines, method_start)
           method_content == Join(PySlice(lines, method_start, method_end + 1))
       IN  IF member.line = 0
           THEN MethodChunks(lines, Tail(methods), context_header, chunk_id)
           ELSE <<CodeChunk(chunk_id, method_content, method_start + 1,
                            method_end + 1, "method", None, member.name,
                            context_header)>>
                \o MethodChunks(lines, Tail(methods), context_header, chunk_id + 1)

\* _chunk_class_by_methods(...): the chunks appended for one class.
chunk_class_by_methods(lines, header, class_node, class_start, start_chunk_id) ==
  LET class_header_end ==
        IF class_node.methods # <<>> /\ class_node.methods[1].line # 0
        THEN class_node.methods[1].line - 2
        ELSE class_start
      class_header == Join(PySlice(lines, class_start, class_header_end + 1))
      chunks == MethodChunks(lines, class_node.methods,
                             header \o <<LF>> \o class_header, start_chunk_id)
  IN  [c \in DOMAIN chunks |-> [chunks[c] EXCEPT !.class_name = class_node.name]]

RECURSIVE ClassLoop(_, _, _, _)
\* The loop of _chunk_by_ast over the remaining class declarations.
ClassLoop(lines, header, classes, chunk_id) ==
  IF classes = <<>> THEN <<>>
  ELSE LET node == Head(classes)
           class_start == IF node.line # 0 THEN node.line - 1 ELSE 0
           class_end == find_block_end(lines, class_start)
           class_content == Join(PySlice(lines, class_start, class_end + 1))
       IN  IF Len(class_content) > max_chunk_size
           THEN chunk_class_by_methods(lines, header, node, class_start, chunk_id)
                \o ClassLoop(lines, header, Tail(classes),
                             chunk_id + Len(node.methods))
           ELSE <<CodeChunk(chunk_id, class_content, class_start + 1,
                            class_end + 1, "class", node.name, None, header)>>
                \o ClassLoop(lines, header, Tail(classes), chunk_id + 1)

\* The places of a tree at which an exception is raised: the first place
\* for a text javalang.parse.parse rejects, a later one for an exception
\* that reaches the try block while the loop over the classes runs.
RaisedAt(tree) == {k \in DOMAIN tree : "error" \in DOMAIN tree[k]}

\* _chunk_by_ast(content, context), tree being what the parser gave: the
\* except branch runs _chunk_by_lines on the context as the loop left it.
chunk_by_ast(content, header, tree) ==
  IF RaisedAt(tree) = {}
  THEN [status |-> "returned", chunks |-> ClassLoop(Split(content), header, tree, 0)]
  ELSE LET k == CHOOSE i \in RaisedAt(tree) : \A j \in RaisedAt(tree) : i <= j
           appended == ClassLoop(Split(content), header, SubSeq(tree, 1, k - 1), 0)
           fallback == chunk_by_lines(content, header)
       IN  [status |-> fallback.status, chunks |-> appended \o fallback.chunks]

\* ------------------------------------------------------------ process_file
\* should_chunk(file_path): the size in bytes against max_chunk_size.
should_chunk(bytes) == bytes # NoFile /\ Len(bytes) > max_chunk_size

\* process_file that takes the number of newlines for the number of lines
\* of a small file.
process_file_CountsNewlines(bytes, tree) ==
  LET content == ReadText(bytes)
      h == ParseHeader(content)
      header == get_context_header(h.package, h.imports)
      chunked ==
        IF ~should_chunk(bytes)
        THEN [status |-> "returned",
              chunks |-> <<CodeChunk(0, content, 1, CountOf(content, LF),
                                     "full_file", None, None, <<>>)>>]
        ELSE IF strategy = "ast_based" /\ javalang
             THEN chunk_by_ast(content, header, tree)
             ELSE chunk_by_lines(content, header)
  IN  [status |-> chunked.status,
       context |-> FileContext(h.package, h.imports, chunked.chunks, content)]

\* process_file(file_path) on a file holding `bytes`, the parser giving
\* `tree` when it is asked: [status, context].
process_file(bytes, tree) ==
  LET content == ReadText(bytes)
      h == ParseHeader(content)
      header == get_context_header(h.package, h.imports)
      chunked ==
        IF ~should_chunk(bytes)
        THEN [status |-> "returned",
              chunks |-> <<CodeChunk(0, content, 1, Len(Split(content)),
                                     "full_file", None, None, <<>>)>>]
        ELSE IF strategy = "ast_based" /\ javalang
             THEN chunk_by_ast(content, header, tree)
             ELSE chunk_by_lines(content, header)
  IN  [status |-> chunked.status,
       context |-> FileContext(h.package, h.imports, chunked.chunks, content)]

\* -------------------------------------------------- merge_refactored_chunks
RECURSIVE InsertByStart(_, _)
InsertByStart(sorted, c) ==
  IF sorted = <<>> THEN <<c>>
  ELSE IF c.start_line < Head(sorted).start_line THEN <<c>> \o sorted
  ELSE <<Head(sorted)>> \o InsertByStart(Tail(sorted), c)

RECURSIVE SortedByStart(_)
\* sorted(chunks, key=lambda c: c.start_line): stable.
SortedByStart(chunks) ==
  IF chunks = <<>> THEN <<>>
  ELSE InsertByStart(SortedByStart(SubSeq(chunks, 1, Len(chunks) - 1)),
                     chunks[Len(chunks)])

RECURSIVE MergeLoop(_, _, _)
\* The loop over sorted_chunks: lines so far, the chunks left, the offset.
MergeLoop(lines, sorted_chunks, offset) ==
  IF sorted_chunks = <<>> THEN lines
  ELSE LET chunk == Head(sorted_chunks)
           refactored_lines == Split(chunk.refactored_content)
           original_lines == Split(chunk.content)
           start == chunk.start_line - 1 + offset
           end == chunk.end_line - 1 + offset
       IN  IF Truthy(chunk.refactored_content)
           THEN MergeLoop(PySliceAssign(lines, start, end + 1, refactored_lines),
                          Tail(sorted_chunks),
                          offset + Len(refactored_lines) - Len(original_lines))
           ELSE MergeLoop(lines, Tail(sorted_chunks), offset)

\* merge_refactored_chunks that hands back the whole-file chunk's rewrite
\* even where none was set.
merge_refactored_chunks_NoFallback(context) ==
  IF Len(context.chunks) = 1 /\ context.chunks[1].chunk_type = "full_file"
  THEN context.chunks[1].refactored_content
  ELSE Join(MergeLoop(Split(context.original_content),
                      SortedByStart(context.chunks), 0))

\* merge_refactored_chunks(context).
merge_refactored_chunks(context) ==
  IF Len(context.chunks) = 1 /\ context.chunks[1].chunk_type = "full_file"
  THEN IF Truthy(context.chunks[1].refactored_content)
       THEN context.chunks[1].refactored_content
       ELSE context.chunks[1].content
  ELSE Join(MergeLoop(Split(context.original_content),
                      SortedByStart(context.chunks), 0))


\* --------------------------------------------------- source files and javalang
\* The lines source files are built from.
Line_import == <<"i", "m", "p", "o", "r", "t", " ", "p", ";">>
Line_class == <<"c", "l", "a", "s", "s", " ", "A", "{">>
Line_method == <<"v", "o", "i", "d", " ", "m", "(", ")", "{", "}">>
Line_class_empty == <<"c", "l", "a", "s", "s", " ", "A", "{", "}">>
Line_close == <<"}">>
Line_stmt_cr == <<"x", ";", CR>>
Line_blank == <<>>
SourceLines ==
  {Line_import, Line_class, Line_class_empty, Line_method, Line_close,
   Line_stmt_cr, Line_blank}

RECURSIVE LineSeqsUpTo(_)
LineSeqsUpTo(n) ==
  IF n = 0 THEN {<<>>}
  ELSE LET shorter == LineSeqsUpTo(n - 1)
       IN  shorter \cup {Append(ls, l) : ls \in {s \in shorter : Len(s) = n - 1},
                                         l \in SourceLines}

\* The files the chunk engine is run on: up to MaxLines lines, as bytes.
SourceFiles == {Join(ls) : ls \in LineSeqsUpTo(MaxLines) \ {<<>>}}

Kw_void == <<"v", "o", "i", "d", " ">>

\* The identifier after the keyword of a declaration.
DeclaredName(line, keyword) ==
  LET after == SubSeq(line, Len(keyword) + 1, Len(line))
  IN  SubSeq(after, 1, SpanOf(after, NameChars))

RECURSIVE DepthAfter(_, _)
\* Nesting depth after the first k lines.
DepthAfter(lines, k) ==
  IF k = 0 THEN 0
  ELSE DepthAfter(lines, k - 1) + CountOf(lines[k], "{") - CountOf(lines[k], "}")

\* The last line of the declaration that starts on line k (1-based).
DeclarationEnd(lines, k) ==
  LET ends == {e \in k..Len(lines) : DepthAfter(lines, e) = DepthAfter(lines, k - 1)}
  IN  IF ends = {} THEN Len(lines) ELSE CHOOSE e \in ends : \A f \in ends : e <= f

ClassLinesOf(lines) == {k \in 1..Len(lines) : StartsWith(lines[k], Kw_class)}

MethodLinesOf(lines) == {k \in 1..Len(lines) : StartsWith(lines[k], Kw_void)}

\* The class declaration a line is directly inside of, 0 for none.
EnclosingClass(lines, k) ==
  LET around == {c \in ClassLinesOf(lines) : c < k /\ k <= DeclarationEnd(lines, c)}
  IN  IF around = {} THEN 0 ELSE CHOOSE c \in around : \A d \in around : d <= c

\* A compilation unit: braces balance, imports stand outside every class
\* and everything else inside one.
WellFormed(lines) ==
  /\ \A k \in 1..Len(lines) : DepthAfter(lines, k) >= 0
  /\ DepthAfter(lines, Len(lines)) = 0
  /\ \A k \in 1..Len(lines) :
       \/ k \in ClassLinesOf(lines)
       \/ StartsWith(lines[k], Kw_import) /\ DepthAfter(lines, k) = 0
       \/ Strip(lines[k]) = <<>>
       \/ EnclosingClass(lines, k) # 0 /\ ~StartsWith(lines[k], Kw_import)

RECURSIVE Ascending(_)
Ascending(S) ==
  IF S = {} THEN <<>>
  ELSE LET least == CHOOSE k \in S : \A j \in S : k <= j
       IN  <<least>> \o Ascending(S \ {least})

\* javalang.parse.parse(content) followed by tree.filter(ClassDeclaration):
\* the class declarations in source order, each with its own method
\* declarations, or ParseFails when content is no compilation unit.
javalang_parse(content) ==
  LET lines == Split(content)
      classes == Ascending(ClassLinesOf(lines))
      methods(c) == Ascending({k \in MethodLinesOf(lines) : EnclosingClass(lines, k) = c})
  IN  IF ~WellFormed(lines) THEN ParseFails
      ELSE [i \in DOMAIN classes |->
              [name |-> DeclaredName(lines[classes[i]], Kw_class),
               line |-> classes[i],
               methods |-> [j \in DOMAIN methods(classes[i]) |->
                              [name |-> <<"m">>, line |-> methods(classes[i])[j]]]]]

\* What _chunk_by_ast may meet inside its try block, parsed being what
\* javalang.parse.parse gives: that, or an exception raised after some of
\* the classes have been handled.
ParseResults(parsed) ==
  {parsed} \cup (IF parsed = ParseFails THEN {}
                 ELSE {SubSeq(parsed, 1, k) \o ParseFails : k \in 1..Len(parsed)})

\* ---------------------------------------------------- chunk, rewrite, merge
\* Rewritten texts a caller stores in a chunk: main.py stores what
\* _extract_java_code returned, the empty text included.
Rewrites == {<<>>, <<"b", LF, "b">>}

\* context = context_manager.process_file(file_path)
ProcessFile ==
  /\ ppc = "cm_start"
  /\ \E parsed \in {javalang_parse(ReadText(disk))} :
       \E tree \in ParseResults(parsed) :
         \E r \in {process_file(disk, tree)} :
           /\ ppc' = IF r.status = "returned" THEN "chunked" ELSE r.status
           /\ ctx' = IF r.status = "returned" THEN r.context ELSE ctx
  /\ UNCHANGED <<disk, calls, settings, final_code>>

\* chunk.refactored_content = refactored_code
SetRefactored ==
  /\ ppc = "chunked"
  /\ \E i \in DOMAIN ctx.chunks, r \in Rewrites :
       /\ ctx.chunks[i].refactored_content = None
       /\ ctx' = [ctx EXCEPT !.chunks[i].refactored_content = r]
  /\ UNCHANGED <<disk, calls, settings, ppc, final_code>>

\* final_code = context_manager.merge_refactored_chunks(context)
MergeChunks ==
  /\ ppc = "chunked"
  /\ final_code' = merge_refactored_chunks(ctx)
  /\ ppc' = "merged"
  /\ UNCHANGED <<disk, calls, settings, ctx>>


\* ------------------------------------------------------------ _refactor_file
\* What generate_with_retry gives: no response, or a response from which
\* _extract_java_code takes the code.
NoResponse == <<"NoResponse">>
Responses == {NoResponse} \cup Rewrites

\* file_path = self._find_file(report.file_path)
RF_FindFile ==
  /\ ppc = "rf_start"
  /\ ppc' = IF disk = NoFile THEN "returned_None" ELSE "rf_process"
  /\ UNCHANGED <<disk, calls, settings, ctx, final_code>>

\* context = self.context_manager.process_file(file_path)
RF_ProcessFile ==
  /\ ppc = "rf_process"
  /\ \E parsed \in {javalang_parse(ReadText(disk))} :
       \E tree \in ParseResults(parsed) :
         \E r \in {process_file(disk, tree)} :
           /\ ppc' = IF r.status = "returned" THEN "rf_chunks" ELSE r.status
           /\ ctx' = IF r.status = "returned" THEN r.context ELSE ctx
  /\ UNCHANGED <<disk, calls, settings, final_code>>

\* The chunks the loop has not reached yet.
ChunksLeft == {i \in DOMAIN ctx.chunks : ctx.chunks[i].refactored_content = None}

\* One round of "for chunk in context.chunks": the rewrite call, the syntax
\* check of its code, the one corrective retry, and the assignment.
RF_Chunk ==
  /\ ppc = "rf_chunks"
  /\ ChunksLeft # {}
  /\ LET i == CHOOSE k \in ChunksLeft : \A j \in ChunksLeft : k <= j
         stored(code) ==
           /\ ctx' = [ctx EXCEPT !.chunks[i].refactored_content = code]
           /\ ppc' = ppc
         gives_up == ppc' = "returned_None" /\ ctx' = ctx
     IN  \E response \in Responses, parse \in ParseOutcomes :
           IF response = NoResponse THEN gives_up
           ELSE IF validate_syntax(parse).is_valid THEN stored(response)
           ELSE \E retried \in Responses, reparse \in ParseOutcomes :
                  IF /\ retried # NoResponse
                     /\ validate_syntax(reparse).is_valid
                     /\ Truthy(retried)
                  THEN stored(retried)
                  ELSE gives_up
  /\ UNCHANGED <<disk, calls, settings, final_code>>

\* RF_Merge that goes on to full_validation in dry-run mode too.
RF_Merge_IgnoresDryRun ==
  /\ ppc = "rf_chunks"
  /\ ChunksLeft = {}
  /\ final_code' = merge_refactored_chunks(ctx)
  /\ ppc' = "rf_validate"
  /\ UNCHANGED <<disk, calls, settings, ctx>>

\* final_code = self.context_manager.merge_refactored_chunks(context)
RF_Merge ==
  /\ ppc = "rf_chunks"
  /\ ChunksLeft = {}
  /\ final_code' = merge_refactored_chunks(ctx)
  /\ ppc' = IF dry_run THEN "rf_metrics" ELSE "rf_validate"
  /\ UNCHANGED <<disk, calls, settings, ctx>>

\* validation = self.validator.full_validation(file_path, final_code)
RF_Validate ==
  /\ ppc = "rf_validate"
  /\ entry' = [entry EXCEPT ![1] = "full_validation"]
  /\ new_code' = [new_code EXCEPT ![1] = final_code]
  /\ pre' = [pre EXCEPT ![1] = disk]
  /\ Goto(1, "full_validation")
  /\ Logged(1, <<"call", "full_validation">>)
  /\ ppc' = "rf_validating"
  /\ UNCHANGED <<disk, original_content, pending, result, tool, commands,
                 settings, ctx, final_code>>

\* if not validation.is_valid: return None
RF_AfterValidation ==
  /\ ppc = "rf_validating"
  /\ pc[1] = "done"
  /\ ppc' = IF result[1].is_valid THEN "rf_write" ELSE "returned_None"
  /\ UNCHANGED <<disk, calls, settings, ctx, final_code>>

\* with open(file_path, 'w', encoding='utf-8') as f: f.write(final_code)
RF_Write ==
  /\ ppc = "rf_write"
  /\ disk' = WriteText(final_code)
  /\ Logged(1, <<"file", "write_final">>)
  /\ ppc' = "rf_metrics"
  /\ UNCHANGED <<pc, entry, new_code, original_content, pending, result, tool,
                 pre, commands, settings, ctx, final_code>>

\* The new metrics are computed and the RefactoringResult is returned.
RF_Return ==
  /\ ppc = "rf_metrics"
  /\ ppc' = "returned_RefactoringResult"
  /\ UNCHANGED <<disk, calls, settings, ctx, final_code>>

\* ------------------------------------------------- validation, one caller
StoredFiles == {NoFile} \cup TextsUpTo({"a", CR, LF}, MaxFileLen)

InitValidator(active, files) ==
  /\ disk \in files
  /\ disk0 = disk
  /\ run_compile \in BOOLEAN
  /\ run_tests \in BOOLEAN
  /\ javalang \in BOOLEAN
  /\ pc = [p \in Callers |-> IF p \in active THEN "idle" ELSE "off"]
  /\ entry = [p \in Callers |-> "none"]
  /\ new_code = [p \in Callers |-> None]
  /\ original_content = [p \in Callers |-> None]
  /\ pending = [p \in Callers |-> NoResult]
  /\ result = [p \in Callers |-> NoResult]
  /\ tool = [p \in Callers |-> "none"]
  /\ log = [p \in Callers |-> <<>>]
  /\ commands = [p \in Callers |-> <<>>]
  /\ pre = [p \in Callers |-> None]

\* ContextManager.__init__ with an empty chunking configuration.
DefaultChunking ==
  /\ max_chunk_size = SMALL_FILE_THRESHOLD
  /\ max_chunk_tokens = MAX_TOKENS_PER_CHUNK
  /\ overlap_lines = DEFAULT_OVERLAP_LINES
  /\ strategy = "ast_based"

\* No validate_multiple_files call.
NoMulti == [none |-> TRUE]

\* No generate_with_retry call.
NoLLM == [none |-> TRUE]

\* What the test directory may hold: nothing (or no directory), one test
\* class of the validated class, several, or only those of another class.
TestTrees == {{}, {"ATest"}, {"ATests", "TestA", "BTest"}, {"BTest"}}

\* The orchestrator at position start, nothing chunked or merged yet, in
\* a project without test classes.
InitOrchestrator(start) ==
  /\ dry_run = FALSE
  /\ test_files = {}
  /\ mv = NoMulti
  /\ llm = NoLLM
  /\ ppc = start
  /\ ctx = NoContext
  /\ final_code = None

Init ==
  /\ InitValidator({1}, StoredFiles)
  /\ DefaultChunking
  /\ dry_run = FALSE /\ ppc = "off" /\ ctx = NoContext /\ final_code = None
  /\ test_files \in TestTrees
  /\ mv = NoMulti
  /\ llm = NoLLM

Next == \E p \in Callers : Call(p) \/ ValidatorStep(p)

\* A single caller using the validator: the pipeline's own, sequential use.
Spec == Init /\ [][Next]_vars

\* ------------------------------------------------ validation, two callers
\* Files without "\r", which a lone caller reads and writes back unchanged.
PlainFiles == TextsUpTo({"a"}, MaxFileLen)

InitConcurrent ==
  /\ InitValidator({1, 2}, PlainFiles)
  /\ javalang
  /\ DefaultChunking
  /\ InitOrchestrator("off")

\* Two callers validating the same working-tree file at the same time; the
\* validator holds no lock, so their steps interleave freely.
SpecConcurrent == InitConcurrent /\ [][Next]_vars

\* ------------------------------------------------- chunk engine and merge
\* A chunking.max_file_size small enough for the source files to be split.
SmallFileSize == 15
\* A chunking.max_chunk_tokens under which a line window holds one line.
SmallChunkTokens == 3

\* Files in which one class is declared inside another, and a
\* chunking.max_file_size that lets the outer class through as one chunk.
NestedFiles ==
  {Join(<<Line_import, Line_class, Line_class_empty, Line_close>>),
   Join(<<Line_class, Line_class_empty, Line_close, Line_class_empty>>)}
NestedFileSize == 20

\* Classes too large for one chunk that declare a method without a body
\* before a method with one.
Line_abstract == <<"v", "o", "i", "d", " ", "m", "(", ")", ";">>
MemberFiles ==
  {Join(<<Line_class, Line_abstract, Line_method, Line_close>>),
   Join(<<Line_class, Line_method, Line_abstract, Line_close>>)}

\* A ContextManager on one of the source files, under configurations that
\* take every strategy; the caller may store rewrites before it merges.
InitMerge ==
  /\ \/ InitValidator({}, SourceFiles) /\ max_chunk_size = SmallFileSize
     \/ InitValidator({}, NestedFiles) /\ max_chunk_size = NestedFileSize
     \/ InitValidator({}, MemberFiles) /\ max_chunk_size = SmallFileSize
  /\ run_compile /\ run_tests
  /\ max_chunk_tokens = SmallChunkTokens
  /\ overlap_lines \in {0, 1, DEFAULT_OVERLAP_LINES}
  /\ strategy \in {"ast_based", "line_based"}
  /\ InitOrchestrator("cm_start")

NextMerge == ProcessFile \/ SetRefactored \/ MergeChunks

SpecMerge == InitMerge /\ [][NextMerge]_vars

\* ------------------------------------------------------------ the header
Line_package_p == <<"p", "a", "c", "k", "a", "g", "e", " ", "p", ";">>
Line_package_q == <<"p", "a", "c", "k", "a", "g", "e", " ", "q", ";">>
Line_import_q == <<"i", "m", "p", "o", "r", "t", " ", "q", ";">>
HeaderLines ==
  {Line_package_p, Line_package_q, Line_import, Line_import_q, Line_class,
   Line_blank}

RECURSIVE HeaderTextsUpTo(_)
HeaderTextsUpTo(n) ==
  IF n = 0 THEN {<<>>}
  ELSE LET shorter == HeaderTextsUpTo(n - 1)
       IN  shorter \cup {Append(ls, l) : ls \in {s \in shorter : Len(s) = n - 1},
                                         l \in HeaderLines}

\* Texts of up to MaxLines lines with package, import and class lines.
HeaderFiles == {Join(ls) : ls \in HeaderTextsUpTo(MaxLines) \ {<<>>}}

\* content is read, the FileContext is made and self._parse_header(content,
\* context) fills in its package and imports.
ParseHeaderOfFile ==
  /\ ppc = "ph_start"
  /\ LET content == ReadText(disk)
         h == ParseHeader(content)
     IN  ctx' = FileContext(h.package, h.imports, <<>>, content)
  /\ ppc' = "ph_parsed"
  /\ UNCHANGED <<disk, calls, settings, final_code>>

InitHeader ==
  /\ InitValidator({}, HeaderFiles)
  /\ run_compile /\ run_tests /\ javalang
  /\ DefaultChunking
  /\ InitOrchestrator("ph_start")

NextHeader == ParseHeaderOfFile

SpecHeader == InitHeader /\ [][NextHeader]_vars

\* ------------------------------------------------------------ block ends
\* Lines with braces in code, in a string, in a line comment and in block
\* comments that share a line with code or span lines.
Line_open == <<"m", "{">>
Line_string == <<"\"", "}", "\"">>
Line_line_comment == <<"/", "/", "}">>
Line_block_comment == <<"/", "*", "}", "*", "/">>
Line_comment_start == <<"/", "*">>
Line_comment_end == <<"*", "/">>
BlockLines ==
  {Line_open, Line_close, Line_string, Line_line_comment, Line_block_comment,
   Line_comment_start, Line_comment_end}

RECURSIVE BlockTextsUpTo(_)
BlockTextsUpTo(n) ==
  IF n = 0 THEN {<<>>}
  ELSE LET shorter == BlockTextsUpTo(n - 1)
       IN  shorter \cup {Append(ls, l) : ls \in {s \in shorter : Len(s) = n - 1},
                                         l \in BlockLines}

\* Texts of up to MaxLines + 1 lines whose first line opens a block.
BlockFiles == {Join(<<Line_open>> \o ls) : ls \in BlockTextsUpTo(MaxLines)}

\* self._find_block_end(lines, 0) on the lines of the text.
FindBlockEndOfFile ==
  /\ ppc = "fb_start"
  /\ LET lines == Split(ReadText(disk))
     IN  ctx' = [lines |-> lines, start |-> 0, block_end |-> find_block_end(lines, 0)]
  /\ ppc' = "fb_found"
  /\ UNCHANGED <<disk, calls, settings, final_code>>

InitBlock ==
  /\ InitValidator({}, BlockFiles)
  /\ run_compile /\ run_tests /\ javalang
  /\ DefaultChunking
  /\ InitOrchestrator("fb_start")

NextBlock == FindBlockEndOfFile

SpecBlock == InitBlock /\ [][NextBlock]_vars

\* ------------------------------------------------ validate_multiple_files
\* The call works on the dict `files`: file i has its own path, holding
\* mv.files[i].disk while no stage is at work on it, and the candidate
\* mv.files[i].new_code.  full_validation of file i is the call of caller
\* i, and `disk` is file i for as long as that call lasts.
FileIds == 1..2

\* "First, validate all syntax (fast)": one round of the first loop.
MV_Syntax ==
  /\ mv.pos = "mv_syntax"
  /\ \E parse \in ParseOutcomes :
       LET r == validate_syntax(parse)
       IN  mv' = [mv EXCEPT !.results = Append(@, r),
                            !.syntax = Append(@, r),
                            !.all_valid = @ /\ r.is_valid,
                            !.pos = IF Len(mv.results) + 1 < Len(mv.files)
                                    THEN "mv_syntax" ELSE "mv_after_syntax"]
  /\ UNCHANGED <<disk, calls, run_compile, run_tests, javalang, disk0, chunking,
                 orch, test_files, llm>>

\* The first loop has ended and every file is sent on to full_validation,
\* whatever the syntax checks found.
MV_AfterSyntax_GoesOn ==
  /\ mv.pos = "mv_after_syntax"
  /\ mv' = [mv EXCEPT !.pos = "mv_full"]
  /\ UNCHANGED <<disk, calls, run_compile, run_tests, javalang, disk0, chunking,
                 orch, test_files, llm>>

\* "if not all_valid: return (False, results)".
MV_AfterSyntax ==
  /\ mv.pos = "mv_after_syntax"
  /\ mv' = [mv EXCEPT !.pos = IF ~mv.all_valid THEN "returned" ELSE "mv_full"]
  /\ UNCHANGED <<disk, calls, run_compile, run_tests, javalang, disk0, chunking,
                 orch, test_files, llm>>

\* "result = self.full_validation(file_path, new_code)" for the next file.
MV_Full ==
  /\ mv.pos = "mv_full"
  /\ LET i == mv.next
     IN  /\ disk' = mv.files[i].disk
         /\ entry' = [entry EXCEPT ![i] = "full_validation"]
         /\ new_code' = [new_code EXCEPT ![i] = mv.files[i].new_code]
         /\ pre' = [pre EXCEPT ![i] = mv.files[i].disk]
         /\ Goto(i, "full_validation")
         /\ Logged(i, <<"call", "full_validation">>)
  /\ mv' = [mv EXCEPT !.pos = "mv_validating"]
  /\ UNCHANGED <<original_content, pending, result, tool, commands, run_compile,
                 run_tests, javalang, disk0, chunking, orch, test_files, llm>>

\* "results[file_path] = result; if not result.is_valid: all_valid = False".
MV_AfterFull ==
  /\ mv.pos = "mv_validating"
  /\ pc[mv.next] = "done"
  /\ LET i == mv.next
     IN  mv' = [mv EXCEPT !.results[i] = result[i],
                          !.all_valid = @ /\ result[i].is_valid,
                          !.files[i].disk = disk,
                          !.next = i + 1,
                          !.pos = IF i < Len(mv.files) THEN "mv_full" ELSE "returned"]
  /\ UNCHANGED <<disk, calls, run_compile, run_tests, javalang, disk0, chunking,
                 orch, test_files, llm>>

\* What a file of the call holds before it, and the candidates for it.
MultiDisks == {NoFile, <<"a">>}
MultiCandidates == {<<>>, <<"b">>}

\* The files of the call: existing or not, each with its candidate.
InitMulti ==
  /\ InitValidator({}, {NoFile})
  /\ DefaultChunking
  /\ dry_run = FALSE /\ ppc = "off" /\ ctx = NoContext /\ final_code = None
  /\ test_files \in {{}, {"ATest"}}
  /\ llm = NoLLM
  /\ \E d \in [FileIds -> MultiDisks], c \in [FileIds -> MultiCandidates] :
       mv = [pos |-> "mv_syntax", next |-> 1, all_valid |-> TRUE,
             results |-> <<>>, syntax |-> <<>>,
             files |-> [i \in FileIds |-> [disk |-> d[i], disk0 |-> d[i], new_code |-> c[i]]]]

NextMulti ==
  \/ MV_Syntax \/ MV_AfterSyntax \/ MV_Full \/ MV_AfterFull
  \/ \E p \in Callers : ValidatorStep(p)

SpecMulti == InitMulti /\ [][NextMulti]_vars

\* ---------------------------------------------------- generate_with_retry
\* The largest refactoring.max_retries tried.
MaxRetries == 3

\* self.retry_delay, in seconds.
retry_delay == 5

\* What self._client.generate returns when it does not raise.
ResponseTexts == {<<>>, <<"b">>}

\* What the LLMClient leaves alone.
llm_frame == <<disk, calls, run_compile, run_tests, javalang, disk0, chunking, orch,
               test_files, mv>>

\* One round of "for attempt in range(self.max_retries)": the call of the
\* client raises, or it gives a response that is returned at once when
\* there is no validation_fn or validation_fn accepts it; a rejected
\* response goes to the next round ("continue"), and an exception raised
\* by validation_fn is caught like one of the client.
GR_Attempt ==
  /\ llm.pos = "loop"
  /\ llm.attempt < llm.max_retries
  /\ \/ /\ llm' = [llm EXCEPT !.attempts = Append(@, [outcome |-> "raised", response |-> None]),
                              !.pos = "except"]
     \/ \E response \in ResponseTexts :
          \/ /\ llm.validation_fn
             /\ llm' = [llm EXCEPT !.attempts = Append(@, [outcome |-> "rejected", response |-> response]),
                                   !.attempt = @ + 1]
          \/ /\ llm.validation_fn
             /\ llm' = [llm EXCEPT !.attempts = Append(@, [outcome |-> "raised", response |-> response]),
                                   !.pos = "except"]
          \/ /\ llm' = [llm EXCEPT !.attempts = Append(@, [outcome |-> "accepted", response |-> response]),
                                   !.returned = response,
                                   !.pos = "returned"]
  /\ UNCHANGED llm_frame

\* The except branch with a sleep after every failed attempt, the last
\* one too.
GR_Except_AlwaysSleeps ==
  /\ llm.pos = "except"
  /\ llm' = [llm EXCEPT !.sleeps = Append(@, [after |-> llm.attempt + 1,
                                              seconds |-> retry_delay * (llm.attempt + 1)]),
                        !.attempt = @ + 1,
                        !.pos = "loop"]
  /\ UNCHANGED llm_frame

\* "except Exception": the sleep before the next attempt, if there is one.
GR_Except ==
  /\ llm.pos = "except"
  /\ llm' = [llm EXCEPT !.sleeps = IF llm.attempt < llm.max_retries - 1
                                   THEN Append(@, [after |-> llm.attempt + 1,
                                                   seconds |-> retry_delay * (llm.attempt + 1)])
                                   ELSE @,
                        !.attempt = @ + 1,
                        !.pos = "loop"]
  /\ UNCHANGED llm_frame

\* The loop has run out: "return None".
GR_Exhausted ==
  /\ llm.pos = "loop"
  /\ ~(llm.attempt < llm.max_retries)
  /\ llm' = [llm EXCEPT !.returned = None, !.pos = "returned"]
  /\ UNCHANGED llm_frame

InitRetry ==
  /\ InitValidator({}, {NoFile})
  /\ run_compile /\ run_tests /\ javalang
  /\ DefaultChunking
  /\ dry_run = FALSE /\ ppc = "off" /\ ctx = NoContext /\ final_code = None
  /\ test_files = {}
  /\ mv = NoMulti
  /\ \E n \in 0..MaxRetries, v \in BOOLEAN :
       llm = [pos |-> "loop", attempt |-> 0, max_retries |-> n, validation_fn |-> v,
              attempts |-> <<>>, sleeps |-> <<>>, returned |-> None]

NextRetry == GR_Attempt \/ GR_Except \/ GR_Exhausted

SpecRetry == InitRetry /\ [][NextRetry]_vars

\* ----------------------------------------------------------- the pipeline
\* Source files large enough to be split under SmallFileSize.
SplitFiles ==
  {Join(<<Line_class_empty, Line_class_empty>>),
   Join(<<Line_class, Line_method, Line_close>>)}

\* _refactor_file on a file that may be missing, may hold carriage returns
\* or may be large enough to be split, in a dry run or not.
InitPipeline ==
  /\ InitValidator({}, StoredFiles \cup SplitFiles)
  /\ max_chunk_size = SmallFileSize
  /\ max_chunk_tokens = SmallChunkTokens
  /\ overlap_lines \in {0, DEFAULT_OVERLAP_LINES}
  /\ strategy \in {"ast_based", "line_based"}
  /\ dry_run \in BOOLEAN
  /\ test_files = {}
  /\ mv = NoMulti
  /\ llm = NoLLM
  /\ ppc = "rf_start"
  /\ ctx = NoContext
  /\ final_code = None

NextPipeline ==
  \/ RF_FindFile \/ RF_ProcessFile \/ RF_Chunk \/ RF_Merge
  \/ RF_Validate \/ ValidatorStep(1) \/ RF_AfterValidation
  \/ RF_Write \/ RF_Return

SpecPipeline == InitPipeline /\ [][NextPipeline]_vars

\* ------------------------------------------------------ reading the log
Happened(p, e) == \E i \in DOMAIN log[p] : log[p][i] = e

\* Positions of the events of one kind ("build", "test", "file", ...).
Events(p, kind) == {i \in DOMAIN log[p] : log[p][i][1] = kind}

\* Positions at which a stage was entered or its tool was invoked.
StageEvents(p, stage, t) ==
  Events(p, t) \cup {i \in DOMAIN log[p] : log[p][i] = <<"stage", stage>>}

\* The ways a tool invocation ends other than by an exit status.
Abnormal == {"TimeoutExpired", "FileNotFoundError", "Exception"}

Failures == Abnormal \cup {"exit_nonzero"}

\* The typed fields of a ValidationResult a caller can branch on.
Flags(r) == <<r.is_valid, r.syntax_valid, r.compiles, r.tests_pass>>

\* ------------------------------------------------------------------ C1
\* C1: restoration guarantee.  Whenever a call of validate_compilation,
\* validate_tests or full_validation has returned, however the external
\* tool ended, the file on disk is what it was immediately before the call.
C1_RestorationGuarantee ==
  \A p \in Callers : (pc[p] = "done" /\ pre[p] # NoFile) => disk = pre[p]

\* ------------------------------------------------------------------ C4
\* C4: stage gating in full_validation.  The stages run in the order
\* syntax, build, test; a stage is entered and its tool invoked only after
\* every earlier enabled stage passed; a stage configured off invokes no
\* tool; the result returned is the first failing stage's result, and it is
\* valid exactly when every enabled stage passed.
C4_StageGating ==
  \A p \in Callers : entry[p] = "full_validation" =>
    LET L == log[p]
        bld == StageEvents(p, "validate_compilation", "build")
        tst == StageEvents(p, "validate_tests", "test")
        synOk == Happened(p, <<"syntax", "passed">>)
        bldOk == Happened(p, <<"build", "exit0">>)
        tstOk == Happened(p, <<"test", "exit0">>)
    IN  /\ Cardinality(Events(p, "syntax")) <= 1
        /\ \A i \in bld \cup tst : \E j \in 1..(i - 1) : L[j] = <<"syntax", "passed">>
        /\ \A i \in bld, j \in tst : i < j
        /\ bld # {} => run_compile
        /\ tst # {} => run_tests /\ (run_compile => bldOk)
        /\ Cardinality({i \in Events(p, "build") : L[i][2] # "started"}) <= 1
        /\ Cardinality({i \in Events(p, "test") : L[i][2] # "started"}) <= 1
        /\ pc[p] = "done" =>
             /\ result[p].is_valid <=>
                  (synOk /\ (run_compile => bldOk) /\ (run_tests => tstOk))
             /\ Happened(p, <<"syntax", "failed">>) =>
                  ~result[p].syntax_valid /\ bld = {} /\ tst = {}
             /\ \A o \in Failures :
                  /\ Happened(p, <<"build", o>>) =>
                       result[p] = CompileResult(o) /\ tst = {}
                  /\ Happened(p, <<"test", o>>) => result[p] = TestResult(o)

\* A full validation whose build failed with both stages on: returned
\* without the test tool having been invoked.
C4_Witness ==
  /\ entry[1] = "full_validation" /\ pc[1] = "done"
  /\ run_compile /\ run_tests
  /\ Happened(1, <<"build", "exit_nonzero">>)
  /\ ~result[1].compiles

\* ------------------------------------------------------------------ C5
\* C5: the syntax stage is free of side effects and terminal on failure.
\* In full_validation the syntax check is the first thing done and leaves
\* the file alone; when it reports an error the call returns that error at
\* once: no stage is entered, no tool invoked, no write made to the file.
C5_SyntaxStage ==
  \A p \in Callers : entry[p] = "full_validation" =>
    /\ Len(log[p]) >= 2 => log[p][2][1] = "syntax"
    /\ Len(log[p]) = 2 => disk = pre[p]
    /\ Happened(p, <<"syntax", "failed">>) =>
         /\ Len(log[p]) = 2
         /\ disk = pre[p]
         /\ pc[p] = "done"
         /\ Flags(result[p]) = <<FALSE, FALSE, TRUE, TRUE>>

\* A full validation of an existing file that ended in a syntax error.
C5_Witness ==
  /\ entry[1] = "full_validation" /\ pc[1] = "done"
  /\ Happened(1, <<"syntax", "failed">>)
  /\ run_compile /\ run_tests
  /\ pre[1] # NoFile /\ pre[1] # WriteText(new_code[1])

\* ------------------------------------------------------------------ C6
\* C6: a timeout or an inability to execute is never a pass.  When the
\* build or test subprocess timed out, could not be started or raised, the
\* call's result is a failure of that stage with is_valid false, and the
\* file is restored.
C6_AbnormalEndFails ==
  \A p \in Callers : pc[p] = "done" =>
    \A o \in Abnormal :
      /\ Happened(p, <<"build", o>>) =>
           /\ Flags(result[p]) = <<FALSE, TRUE, FALSE, TRUE>>
           /\ pre[p] # NoFile => disk = pre[p]
      /\ Happened(p, <<"test", o>>) =>
           /\ Flags(result[p]) = <<FALSE, TRUE, TRUE, FALSE>>
           /\ pre[p] # NoFile => disk = pre[p]

\* ------------------------------------------------------------------ C7
\* C7: tool unavailable.  When the build stage is on and the build
\* executable is absent, the outcome is of a kind of its own, which the
\* caller can tell from a build error and from a timeout, and the file on
\* disk is what it was before the call.
C7_ToolUnavailable ==
  \A p \in Callers :
    (pc[p] = "done" /\ Happened(p, <<"build", "FileNotFoundError">>)) =>
      /\ Flags(result[p]) # Flags(CompileResult("exit_nonzero"))
      /\ Flags(result[p]) # Flags(CompileResult("TimeoutExpired"))
      /\ pre[p] # NoFile => disk = pre[p]

\* ------------------------------------------------------------------ C8
\* C8: order of the mutation protocol in a build or test stage.  The
\* snapshot is taken before the file is overwritten; the tool is invoked
\* only once the candidate has been written, and the file holds the
\* candidate for as long as the tool runs; the restore write comes after
\* the tool has ended and is the last write of the stage, made before the
\* stage returns.
C8_ProtocolOrder ==
  \A p \in Callers :
    LET L == log[p]
        W == <<"file", "write_candidate">>
        S == <<"file", "snapshot">>
        R == <<"file", "restore">>
        n(e) == Cardinality({i \in DOMAIN L : L[i] = e})
    IN  /\ \A i \in DOMAIN L :
             /\ L[i] = W =>
                  \/ L[i - 1] = S
                  \/ pre[p] = NoFile /\ \A j \in 1..(i - 1) : L[j] # W
             /\ L[i] = S => (i < Len(L) => L[i + 1] = W)
             /\ L[i] \in {<<"build", "started">>, <<"build", "FileNotFoundError">>,
                          <<"test", "started">>, <<"test", "FileNotFoundError">>} =>
                  L[i - 1] = W
             /\ L[i] = R =>
                  /\ L[i - 1][1] \in {"build", "test"}
                  /\ L[i - 1][2] \in RunOutcomes \cup {"FileNotFoundError"}
                  /\ i < Len(L) => L[i + 1][1] = "stage"
        /\ tool[p] # "none" =>
             /\ disk = WriteText(new_code[p])
             /\ L[Len(L)][2] = "started"
        /\ n(R) <= n(S) /\ n(S) <= n(R) + 1
        /\ pc[p] \in {"done", "fv_after_compile", "fv_step3", "fv_after_tests"} =>
             n(R) = n(S)

\* A full validation that ran both stages on an existing file, the test
\* tool having timed out: two snapshots, two restores.
C8_Witness ==
  /\ entry[1] = "full_validation" /\ pc[1] = "done"
  /\ pre[1] # NoFile
  /\ Happened(1, <<"test", "TimeoutExpired">>)
  /\ Cardinality({i \in DOMAIN log[1] : log[1][i] = <<"file", "restore">>}) = 2

\* ------------------------------------------------------------------ C2
\* Between its snapshot and its restore a call owns the file.
InSection(p) ==
  pc[p] \in {"vc_write", "vc_run", "vc_wait", "vc_finally",
             "vt_write", "vt_run", "vt_wait", "vt_finally"}

\* C2: single-writer exclusion.  The snapshot-overwrite-run-restore sections
\* of two calls on the same file never overlap, and once both calls have
\* returned the file holds what it held before either was issued.
C2_SingleWriter ==
  /\ ~(InSection(1) /\ InSection(2))
  /\ (pc[1] = "done" /\ pc[2] = "done" /\ disk0 # NoFile) => disk = disk0

\* ------------------------------------------------------------------ C9
\* The chunks of the FileContext that carry a rewrite.
Rewritten == {i \in DOMAIN ctx.chunks : ctx.chunks[i].refactored_content # None}

ChunkTypes == {ctx.chunks[i].chunk_type : i \in DOMAIN ctx.chunks}

\* C9: merge round trip.  Whenever merge_refactored_chunks has returned for
\* a FileContext of process_file (one whole-file chunk, class chunks, method
\* chunks or line windows) in which no chunk has a rewrite set, what it
\* returned is exactly the original text the FileContext holds; where the
\* file has no carriage return this is the file as stored, byte for byte.
C9_MergeRoundTrip ==
  (ppc = "merged" /\ Rewritten = {}) =>
     /\ final_code = ctx.original_content
     /\ Find(disk, CR) = 0 => final_code = disk

\* A file split into several chunks, a class among them, merged with no
\* rewrite set.
C9_Witness ==
  /\ ppc = "merged"
  /\ Rewritten = {}
  /\ Len(ctx.chunks) >= 2
  /\ "class" \in ChunkTypes

\* ------------------------------------------------------------------ C10
\* C10: whole-file merge.  Whenever merge_refactored_chunks has returned for
\* a FileContext with a single whole-file chunk, it returned the chunk's
\* rewritten content verbatim if a rewrite has been set, whatever the
\* rewritten text is, and the original text verbatim if none has been set.
C10_WholeFileMerge ==
  (ppc = "merged" /\ Len(ctx.chunks) = 1 /\ ChunkTypes = {"full_file"}) =>
     final_code = IF Rewritten # {}
                  THEN ctx.chunks[1].refactored_content
                  ELSE ctx.original_content

\* ------------------------------------------------------------------ C3
\* C3: verified before replace.  In a run that is no dry run, once
\* _refactor_file has written the file, merge_refactored_chunks had produced
\* the text written and full_validation of exactly that text had returned
\* is_valid = TRUE; and once full_validation has returned is_valid = FALSE
\* the file holds its original content, nothing is written to it and no
\* RefactoringResult is returned.
C3_VerifiedBeforeReplace ==
  /\ (~dry_run /\ Happened(1, <<"file", "write_final">>)) =>
        /\ final_code # None
        /\ pc[1] = "done"
        /\ new_code[1] = final_code
        /\ result[1].is_valid
        /\ disk = WriteText(final_code)
  /\ (~dry_run /\ pc[1] = "done" /\ ~result[1].is_valid) =>
        /\ disk = disk0
        /\ ~Happened(1, <<"file", "write_final">>)
        /\ ppc # "returned_RefactoringResult"

\* ------------------------------------------------------------------ C11
\* The FileContext goes through the multi-chunk branch of merge.
MultiChunk ==
  ~(Len(ctx.chunks) = 1 /\ ctx.chunks[1].chunk_type = "full_file")

\* The chunks in the order merge visits them.
Sorted == SortedByStart(ctx.chunks)

\* The replace spans do not overlap: in start order, each chunk starts
\* after the one before it has ended.
SpansDisjoint ==
  \A k \in 1..(Len(Sorted) - 1) : Sorted[k + 1].start_line > Sorted[k].end_line

\* O_k: the original lines the chunk replaces.
OriginalCount(chunk) == chunk.end_line - chunk.start_line + 1

\* The lines that stand for the chunk in a correct merge, and L_k.
ReplacementLines(chunk) ==
  IF chunk.refactored_content # None
  THEN Split(chunk.refactored_content)
  ELSE Split(chunk.content)

ReplacementCount(chunk) ==
  IF chunk.refactored_content # None
  THEN Len(Split(chunk.refactored_content))
  ELSE OriginalCount(chunk)

RECURSIVE DeltaBefore(_)
\* Sum of L_j - O_j over the first k chunks in start order.
DeltaBefore(k) ==
  IF k = 0 THEN 0
  ELSE DeltaBefore(k - 1) + ReplacementCount(Sorted[k]) - OriginalCount(Sorted[k])

\* C11: offset correctness.  Whenever merge_refactored_chunks has returned
\* for a multi-chunk FileContext with non-overlapping spans, the merged text
\* has original_total + sum of (L_k - O_k) lines, and the lines of every
\* rewritten chunk k stand in it from line start_line(k) + sum over the
\* chunks j before k of (L_j - O_j) on; this for every rewritten text.
C11_OffsetCorrectness ==
  (ppc = "merged" /\ MultiChunk /\ SpansDisjoint) =>
     LET merged == Split(final_code)
     IN  /\ Len(merged) = Len(Split(ctx.original_content)) + DeltaBefore(Len(Sorted))
         /\ \A k \in 1..Len(Sorted) :
              Sorted[k].refactored_content # None =>
                LET first == Sorted[k].start_line + DeltaBefore(k - 1)
                IN  SubSeq(merged, first, first + ReplacementCount(Sorted[k]) - 1)
                      = Split(Sorted[k].refactored_content)

\* ------------------------------------------------------------------ C12
RECURSIVE Recombined(_, _, _)
\* The original lines from line `from` on, with the span of every chunk
\* from the k-th in start order on replaced by the chunk's rewritten lines
\* where it has a rewrite and left as it is where it has none.
Recombined(original, from, k) ==
  IF k > Len(Sorted) THEN SubSeq(original, from, Len(original))
  ELSE SubSeq(original, from, Sorted[k].start_line - 1)
       \o (IF Sorted[k].refactored_content # None
           THEN Split(Sorted[k].refactored_content)
           ELSE SubSeq(original, Sorted[k].start_line, Sorted[k].end_line))
       \o Recombined(original, Sorted[k].end_line + 1, k + 1)

\* C12: untouched regions survive.  Whenever merge_refactored_chunks has
\* returned for a multi-chunk FileContext with non-overlapping spans, the
\* merged text is, in order: the original lines before the first span, then
\* for each chunk its rewritten lines (once) or, without a rewrite, its
\* original lines, each followed by the original lines of the gap after it.
C12_UntouchedRegions ==
  (ppc = "merged" /\ MultiChunk /\ SpansDisjoint) =>
     Split(final_code) = Recombined(Split(ctx.original_content), 1, 1)

\* ------------------------------------------------------------------ C13
\* process_file has returned a FileContext.
Returned == ppc \in {"chunked", "merged"}

\* C13: span invariant.  Whenever process_file has returned a FileContext,
\* under any strategy, its chunks in start order have spans that do not
\* overlap and strictly increase: each starts after the previous has ended.
C13_SpanInvariant == Returned => SpansDisjoint

\* ------------------------------------------------------------------ C14
\* C14: merge rejects malformed input.  merge_refactored_chunks never
\* returns a merged text for a multi-chunk FileContext whose spans overlap
\* or are not strictly increasing.
C14_MergeRejectsMalformed == (ppc = "merged" /\ MultiChunk) => SpansDisjoint

\* ------------------------------------------------------------------ C15
\* Number of lines of the file as process_file read it.
LineCount == Len(Split(ctx.original_content))

\* C15: tiling and bounds.  Whenever process_file has returned a
\* FileContext, every chunk has 1 <= start_line <= end_line <= line count,
\* no line lies in two spans (so the spans and the gaps between them cover
\* every line exactly once), and a file whose size does not exceed the
\* threshold has exactly one whole-file chunk, with span 1..line count and
\* the entire text as content.
C15_TilingAndBounds ==
  Returned =>
     /\ \A i \in DOMAIN ctx.chunks :
          /\ 1 <= ctx.chunks[i].start_line
          /\ ctx.chunks[i].start_line <= ctx.chunks[i].end_line
          /\ ctx.chunks[i].end_line <= LineCount
     /\ \A n \in 1..LineCount :
          Cardinality({i \in DOMAIN ctx.chunks :
                         /\ ctx.chunks[i].start_line <= n
                         /\ n <= ctx.chunks[i].end_line}) <= 1
     /\ Len(disk) <= max_chunk_size =>
          /\ Len(ctx.chunks) = 1
          /\ ctx.chunks[1].chunk_type = "full_file"
          /\ ctx.chunks[1].start_line = 1
          /\ ctx.chunks[1].end_line = LineCount
          /\ ctx.chunks[1].content = ctx.original_content

\* ------------------------------------------------------------------ C16
\* C16: line-window decomposition terminates.  For no file and no
\* configuration is the loop of _chunk_by_lines still running after more
\* iterations than a strictly advancing window start can need (the file
\* has at most MaxRounds lines), and it does not end by raising either.
C16_LineWindowsTerminate == ppc \notin {"endless", "raised"}

\* ------------------------------------------------------------------ C17
\* AST parsing was asked for and is unavailable or fails on the file.
Degraded ==
  /\ strategy = "ast_based"
  /\ should_chunk(disk)
  /\ ~javalang \/ javalang_parse(ReadText(disk)) = ParseFails

\* The FileContext process_file builds when line windows are what the
\* configuration asks for.
LineBasedContext ==
  LET content == ReadText(disk)
      h == ParseHeader(content)
  IN  FileContext(h.package, h.imports,
                  chunk_by_lines(content, get_context_header(h.package, h.imports)).chunks,
                  content)

\* C17: parse degradation.  When AST parsing is unavailable or fails,
\* process_file does not raise but returns a FileContext made of line
\* windows, and the result tells the caller of the degradation: it differs
\* from the result of a line-based decomposition that was asked for.
C17_ParseDegradation ==
  (Degraded /\ ppc # "cm_start") =>
     /\ Returned
     /\ \A i \in DOMAIN ctx.chunks : ctx.chunks[i].chunk_type = "lines"
     /\ [ctx EXCEPT !.chunks = [i \in DOMAIN ctx.chunks |->
                                  [ctx.chunks[i] EXCEPT !.refactored_content = None]]]
          # LineBasedContext

\* ------------------------------------------------------------------ C18
\* The lines of the text, stripped.
StrippedLines ==
  LET lines == Split(ctx.original_content)
  IN  [k \in DOMAIN lines |-> Strip(lines[k])]

\* Number of the first line containing a type declaration, one past the
\* last line where there is none.
FirstTypeLine ==
  LET holds == {k \in DOMAIN StrippedLines :
                  \/ Contains(StrippedLines[k], Kw_class)
                  \/ Contains(StrippedLines[k], Kw_interface)
                  \/ Contains(StrippedLines[k], Kw_enum)}
  IN  IF holds = {} THEN Len(StrippedLines) + 1
      ELSE CHOOSE k \in holds : \A j \in holds : k <= j

\* The package declarations ahead of the first type declaration.
PackageLinesOf ==
  {k \in 1..(FirstTypeLine - 1) :
     StartsWith(StrippedLines[k], Kw_package) /\ PackageMatch(StrippedLines[k]) # None}

\* The import lines ahead of the first type declaration.
ImportLinesOf ==
  {k \in 1..(FirstTypeLine - 1) : StartsWith(StrippedLines[k], Kw_import)}

\* C18: header parsing.  After _parse_header the header holds the first
\* package declaration found (none: the empty name), and its imports are
\* exactly the import lines before the first line containing a type
\* declaration, in their order and with repetitions kept.
C18_HeaderParsing ==
  ppc = "ph_parsed" =>
     /\ ctx.package =
          IF PackageLinesOf = {} THEN <<>>
          ELSE PackageMatch(StrippedLines[CHOOSE k \in PackageLinesOf :
                                            \A j \in PackageLinesOf : k <= j])
     /\ ctx.imports =
          [n \in 1..Cardinality(ImportLinesOf) |->
             StrippedLines[Ascending(ImportLinesOf)[n]]]

\* ------------------------------------------------------------------ C19
RECURSIVE MatchingLine(_, _, _, _)
\* The 0-based line on which the brace closes that matches the first
\* opening brace of the text, braces in string literals, line comments and
\* block comments not counted; -1 where there is none.  text is what is
\* left to read, line its line number, state one of "code", "string",
\* "line_comment", "block_comment", depth the braces open (-1: none seen).
MatchingLine(text, line, state, depth) ==
  IF text = <<>> THEN -1
  ELSE LET c == Head(text)
           two == SubSeq(text, 1, Min(2, Len(text)))
       IN  IF c = LF
           THEN MatchingLine(Tail(text), line + 1,
                             IF state = "block_comment" THEN state ELSE "code", depth)
           ELSE IF state = "line_comment"
           THEN MatchingLine(Tail(text), line, state, depth)
           ELSE IF state = "block_comment"
           THEN IF two = <<"*", "/">>
                THEN MatchingLine(Tail(Tail(text)), line, "code", depth)
                ELSE MatchingLine(Tail(text), line, state, depth)
           ELSE IF state = "string"
           THEN MatchingLine(Tail(text), line, IF c = "\"" THEN "code" ELSE state, depth)
           ELSE IF two = <<"/", "/">>
           THEN MatchingLine(Tail(Tail(text)), line, "line_comment", depth)
           ELSE IF two = <<"/", "*">>
           THEN MatchingLine(Tail(Tail(text)), line, "block_comment", depth)
           ELSE IF c = "\""
           THEN MatchingLine(Tail(text), line, "string", depth)
           ELSE IF c = "{"
           THEN MatchingLine(Tail(text), line, state, IF depth = -1 THEN 1 ELSE depth + 1)
           ELSE IF c = "}" /\ depth = 1
           THEN line
           ELSE IF c = "}" /\ depth > 1
           THEN MatchingLine(Tail(text), line, state, depth - 1)
           ELSE MatchingLine(Tail(text), line, state, depth)

\* C19: brace-balance scanning.  For lines whose first line opens a block
\* that is closed further on, _find_block_end returns the line holding the
\* closing brace that matches the first opening brace, braces inside
\* string literals, line comments and block comments not counted.
C19_BraceBalance ==
  (ppc = "fb_found" /\ MatchingLine(Join(ctx.lines), 0, "code", -1) # -1) =>
     ctx.block_end = MatchingLine(Join(ctx.lines), 0, "code", -1)

\* ------------------------------------------------------------------ C20
\* process_file has returned line windows.
LineWindows ==
  /\ ppc = "chunked"
  /\ ctx.chunks # <<>>
  /\ \A k \in DOMAIN ctx.chunks : ctx.chunks[k].chunk_type = "lines"

\* The last line of the target window of a chunk: lines_per_chunk lines
\* from its start, the last line of the file at most.
TargetEnd(chunk) ==
  Min(chunk.start_line - 1 + lines_per_chunk(ctx.original_content, Split(ctx.original_content)),
      LineCount)

\* The nearest line at or after line t whose trimmed content closes a
\* block, the last line of the file where there is none.
NearestClose(t) ==
  LET closing == {e \in t..LineCount : EndsWith(StrippedLines[e], "}")}
  IN  IF closing = {} THEN LineCount
      ELSE CHOOSE e \in closing : \A f \in closing : e <= f

\* C20: line-window snapping.  In line-based decomposition every window
\* other than the last ends at the nearest line at or after its target
\* end whose trimmed content closes a block.
C20_LineWindowSnapping ==
  LineWindows =>
    \A k \in 1..(Len(ctx.chunks) - 1) :
       ctx.chunks[k].end_line = NearestClose(TargetEnd(ctx.chunks[k]))

\* ------------------------------------------------------------------ C21
\* The chunks of the FileContext that hold one method of a split class.
MethodChunkIds == {i \in DOMAIN ctx.chunks : ctx.chunks[i].chunk_type = "method"}

\* The lines of the class prefix of the method declared on line k: from
\* the line of its class to the line before the first method of the class.
PrefixLines(lines, k) ==
  LET c == EnclosingClass(lines, k)
      members == {m \in MethodLinesOf(lines) : EnclosingClass(lines, m) = c}
  IN  c..((CHOOSE m \in members : \A n \in members : m <= n) - 1)

\* C21: member-level decomposition.  Whenever process_file has returned
\* method chunks, each has the span and the content of exactly one
\* method's own lines, from its declaration line to the line on which the
\* declaration ends; the lines of the class prefix are in the chunk's
\* context header and in no method chunk's span.
C21_MemberDecomposition ==
  Returned =>
    \A i \in MethodChunkIds :
      LET lines == Split(ctx.original_content)
          chunk == ctx.chunks[i]
          k == chunk.start_line
          prefix == PrefixLines(lines, k)
      IN  /\ k \in MethodLinesOf(lines)
          /\ chunk.end_line = DeclarationEnd(lines, k)
          /\ chunk.content = Join(SubSeq(lines, k, DeclarationEnd(lines, k)))
          /\ Contains(chunk.context_header, Join([j \in 1..Cardinality(prefix) |-> lines[(CHOOSE p \in prefix : \A q \in prefix : p <= q) + j - 1]]))
          /\ \A j \in MethodChunkIds :
               \A p \in prefix : ~(ctx.chunks[j].start_line <= p /\ p <= ctx.chunks[j].end_line)

\* ------------------------------------------------------------------ C22
\* The test commands caller p has run.
TestCommands(p) == {i \in DOMAIN commands[p] : commands[p][i].tool = "test"}

\* The test classes of the validated class that the test directory holds.
RelatedTests == {"ATest", "ATests", "TestA"} \cap test_files

\* C22: test selection.  A validate_tests call that has run its test stage
\* (tests enabled) has run exactly one test command: narrowed to the
\* matching test classes exactly when the test directory holds at least
\* one file named <Name>Test, <Name>Tests or Test<Name> for the validated
\* file's class name, and the full, unrestricted command exactly when it
\* holds none.
C22_TestSelection ==
  \A p \in Callers :
    (pc[p] = "vt_finally") =>
       /\ Cardinality(TestCommands(p)) = 1
       /\ \A i \in TestCommands(p) :
            /\ (commands[p][i].tests # <<>>) = (RelatedTests # {})
            /\ {commands[p][i].tests[j] : j \in DOMAIN commands[p][i].tests} = RelatedTests

\* A test stage that ran a narrowed command for several matching classes.
C22_Witness ==
  /\ pc[1] = "vt_finally"
  /\ Cardinality(RelatedTests) = 2
  /\ \E i \in TestCommands(1) : Len(commands[1][i].tests) = 2

\* ------------------------------------------------------------------ C23
\* The build commands caller p has run.
BuildCommands(p) == {i \in DOMAIN commands[p] : commands[p][i].tool = "build"}

\* C23: no internal retries.  At every moment of a full_validation call
\* the build tool has been invoked at most once and the test tool at most
\* once, whatever their outcomes.
C23_NoInternalRetries ==
  \A p \in Callers :
    entry[p] = "full_validation" =>
       /\ Cardinality(BuildCommands(p)) <= 1
       /\ Cardinality(TestCommands(p)) <= 1

\* A full_validation call that returned after its test run timed out, the
\* build and the test tool invoked once each.
C23_Witness ==
  /\ pc[1] = "done"
  /\ entry[1] = "full_validation"
  /\ Happened(1, <<"test", "TimeoutExpired">>)
  /\ Cardinality(BuildCommands(1)) = 1
  /\ Cardinality(TestCommands(1)) = 1
  /\ ~result[1].is_valid

\* ------------------------------------------------------------------ C24
\* C24: validation never creates the target file.  When a call of
\* validate_compilation or validate_tests that was issued while the target
\* path did not exist has returned, the path still does not exist.
C24_NeverCreatesTarget ==
  \A p \in Callers :
    (/\ pc[p] = "done"
     /\ entry[p] \in {"validate_compilation", "validate_tests"}
     /\ pre[p] = NoFile) => disk = NoFile

\* ------------------------------------------------------------------ C25
\* _refactor_file returned None from inside its loop over the chunks: the
\* rewrite call gave nothing for a chunk, or the chunk's code failed the
\* syntax check and the corrective retry failed too.
GaveUp == ppc = "returned_None" /\ ctx # NoContext /\ ChunksLeft # {}

\* Nothing was merged, no tool was invoked and the file was not written.
Untouched ==
  /\ final_code = None
  /\ commands[1] = <<>>
  /\ tool[1] = "none"
  /\ ~Happened(1, <<"file", "write_candidate">>)
  /\ ~Happened(1, <<"file", "write_final">>)
  /\ disk = disk0

\* C25: all-or-nothing rewrite of a file.  A round of the chunk loop either
\* stores a rewrite in the chunk and stays in the loop or makes
\* _refactor_file return None; once it has returned None from the loop,
\* merge was not called, no build or test tool was invoked and the file
\* was not written; in dry-run mode the file is never written and no tool
\* is ever invoked.
C25_AllOrNothing ==
  /\ [](GaveUp => Untouched)
  /\ [](dry_run => /\ commands[1] = <<>>
                   /\ tool[1] = "none"
                   /\ disk = disk0)
  /\ [][(ppc = "rf_chunks" /\ ChunksLeft # {}) =>
          \/ ppc' = "rf_chunks" /\ Cardinality(ChunksLeft') < Cardinality(ChunksLeft)
          \/ ppc' = "returned_None" /\ ctx' = ctx /\ final_code' = None]_vars

\* The loop gave up on a later chunk after it had stored a rewrite in an
\* earlier one, outside dry-run mode.
C25_Witness ==
  /\ GaveUp
  /\ ~dry_run
  /\ \E i \in DOMAIN ctx.chunks : ctx.chunks[i].refactored_content # None

\* ------------------------------------------------------------------ C26
\* C26: chunk content matches its span.  Whenever process_file has
\* returned a FileContext, under any strategy, every chunk's content has
\* end_line - start_line + 1 lines and is the original file's lines
\* start_line..end_line joined by newlines, and its original_content is
\* its content.
C26_ContentMatchesSpan ==
  Returned =>
    \A i \in DOMAIN ctx.chunks :
      LET chunk == ctx.chunks[i]
          lines == Split(ctx.original_content)
      IN  /\ Len(Split(chunk.content)) = chunk.end_line - chunk.start_line + 1
          /\ 1 <= chunk.start_line /\ chunk.end_line <= Len(lines)
          /\ chunk.content = Join(SubSeq(lines, chunk.start_line, chunk.end_line))
          /\ chunk.original_content = chunk.content

\* A FileContext with a method chunk, and one with a class chunk of
\* several lines next to another chunk.
C26_Witness ==
  /\ Returned
  /\ \/ "method" \in ChunkTypes
     \/ /\ Len(ctx.chunks) >= 2
        /\ \E i \in DOMAIN ctx.chunks :
             /\ ctx.chunks[i].chunk_type = "class"
             /\ ctx.chunks[i].end_line > ctx.chunks[i].start_line

\* ------------------------------------------------------------------ C27
\* The strategy was AST-based and the chunks of the returned FileContext
\* include line windows: _chunk_by_ast fell back to _chunk_by_lines.
FellBack ==
  /\ Returned
  /\ strategy = "ast_based" /\ javalang
  /\ "lines" \in ChunkTypes

\* C27: clean fallback.  Whenever AST-based chunking has fallen back to
\* line windows, the returned FileContext holds line-window chunks only
\* and their chunk ids are distinct.
C27_CleanFallback ==
  FellBack =>
    /\ ChunkTypes = {"lines"}
    /\ \A i, j \in DOMAIN ctx.chunks :
         ctx.chunks[i].chunk_id = ctx.chunks[j].chunk_id => i = j

\* ------------------------------------------------------------------ C28
\* The stages of caller p's call that failed.
FailedStages(p) ==
  {s \in {"syntax", "build", "test"} :
     \E i \in Events(p, s) : log[p][i][2] \notin {"passed", "started", "exit0"}}

\* The stage flags of a ValidationResult that are false.
FalseFlags(r) ==
  {s \in {"syntax", "build", "test"} :
     \/ s = "syntax" /\ ~r.syntax_valid
     \/ s = "build" /\ ~r.compiles
     \/ s = "test" /\ ~r.tests_pass}

\* C28: outcome flags are consistent.  Every ValidationResult that
\* full_validation returns has is_valid = (syntax_valid and compiles and
\* tests_pass); when is_valid is false exactly one stage flag is false, the
\* flag of the stage that failed, which is the only stage that failed.
C28_FlagsConsistent ==
  \A p \in Callers :
    (pc[p] = "done" /\ entry[p] = "full_validation") =>
       LET r == result[p]
       IN  /\ r.is_valid = (r.syntax_valid /\ r.compiles /\ r.tests_pass)
           /\ ~r.is_valid => /\ Cardinality(FalseFlags(r)) = 1
                             /\ FalseFlags(r) = FailedStages(p)

\* A full validation that returned the failure of its test stage after
\* the syntax check and the build had passed.
C28_Witness ==
  /\ pc[1] = "done" /\ entry[1] = "full_validation"
  /\ run_compile
  /\ Happened(1, <<"build", "exit0">>)
  /\ Happened(1, <<"test", "exit_nonzero">>)
  /\ FalseFlags(result[1]) = {"test"}

\* ------------------------------------------------------------------ C29
\* The files whose candidate failed the syntax check of the first loop.
SyntaxFailures == {i \in DOMAIN mv.syntax : ~mv.syntax[i].is_valid}

\* C29: multi-file validation checks all syntax first.  When
\* validate_multiple_files has returned: if some file's candidate failed
\* the syntax check, all_valid is false, there is a result for every file,
\* no build or test tool was invoked and no file was written; otherwise
\* there is for every file the result of its full_validation, and
\* all_valid is true exactly when each of them passed.
C29_SyntaxFirst ==
  (mv # NoMulti /\ mv.pos = "returned") =>
     /\ DOMAIN mv.results = FileIds
     /\ IF SyntaxFailures # {}
        THEN /\ ~mv.all_valid
             /\ mv.results = mv.syntax
             /\ \A i \in FileIds :
                  /\ commands[i] = <<>>
                  /\ log[i] = <<>>
                  /\ mv.files[i].disk = mv.files[i].disk0
        ELSE /\ \A i \in FileIds : pc[i] = "done" /\ mv.results[i] = result[i]
             /\ mv.all_valid = (\A i \in FileIds : result[i].is_valid)

\* The call returned after the syntax check passed for the first file and
\* failed for the second.
C29_Witness ==
  /\ mv # NoMulti /\ mv.pos = "returned"
  /\ SyntaxFailures = {2}
  /\ run_compile /\ run_tests

\* ------------------------------------------------------------------ C30
\* The attempts of the call that ended with the given outcome.
AttemptsWith(outcome) == {k \in DOMAIN llm.attempts : llm.attempts[k].outcome = outcome}

\* C30: bounded rewrite retries.  generate_with_retry calls the client at
\* most max_retries times; what it returns is the response of the first
\* attempt that did not raise and that validation_fn, if given, accepted,
\* and that attempt is its last; it returns None exactly when all
\* max_retries attempts raised or were rejected; it sleeps only after an
\* attempt that raised and never after the last of the max_retries.
C30_BoundedRetries ==
  llm # NoLLM =>
    /\ Len(llm.attempts) <= llm.max_retries
    /\ AttemptsWith("accepted") \subseteq {Len(llm.attempts)}
    /\ \A k \in AttemptsWith("rejected") : llm.validation_fn
    /\ \A i \in DOMAIN llm.sleeps :
         /\ llm.sleeps[i].after \in AttemptsWith("raised")
         /\ llm.sleeps[i].after < llm.max_retries
         /\ \A j \in DOMAIN llm.sleeps : llm.sleeps[j].after = llm.sleeps[i].after => i = j
    /\ llm.pos = "returned" =>
         /\ AttemptsWith("accepted") # {} =>
              /\ llm.returned # None
              /\ llm.returned = llm.attempts[Len(llm.attempts)].response
         /\ (llm.returned = None) =
              (/\ Len(llm.attempts) = llm.max_retries
               /\ AttemptsWith("accepted") = {})

\* A call that returned the response of its third attempt after one
\* attempt had raised and one had been rejected.
C30_Witness ==
  /\ llm # NoLLM
  /\ llm.pos = "returned"
  /\ llm.returned = <<"b">>
  /\ Len(llm.attempts) = 3
  /\ AttemptsWith("raised") # {} /\ AttemptsWith("rejected") # {}
  /\ Len(llm.sleeps) = 1

====
